---- MODULE Spec2Model ----
(***************************************************************************)
(* Time-resolution pipeline of the HammerOverlay desktop client: the       *)
(* Overlay component (input-change effect, debounce, parseInput with its   *)
(* AbortController), the format catalog, the usage statistics helpers and  *)
(* the validation of the Intent Normalizer reply.                          *)
(*                                                                         *)
(* Representation of JavaScript values:                                    *)
(*   - a string is a sequence of one-character strings;                    *)
(*   - `T | null` is a sequence of length 0 (null) or 1 (the value);       *)
(*   - a format index is kept in half units (2*k stands for k, 2*k+1 for   *)
(*     k + 0.5), because the index is a JavaScript number and a JSON reply *)
(*     may carry a fraction;                                               *)
(*   - a confidence is kept in hundredths (70 stands for 0.7).             *)
(***************************************************************************)
EXTENDS Integers, Sequences, FiniteSets, TLC

VARIABLES
    inputText,          \* useState inputText
    epoch,              \* useState epoch (number | null)
    selectedIndex,      \* useState selectedIndex
    loading,            \* useState loading
    error,              \* useState error (string | null)
    info,               \* useState info (string | null)
    confidence,         \* useState confidence
    isClipboardText,    \* useState isClipboardText
    debounceTimeoutRef, \* the pending setTimeout callback, if any
    abortControllerRef, \* id of the controller held by the ref, 0 for null
    attempts,           \* the parseInput invocations started so far
    formatStats,        \* the stored usage histogram, code -> count
    apiKey,             \* whether VITE_OPENAI_API_KEY is configured
    initialized,        \* whether the mount effect has run
    method,             \* which branch produced the displayed result
    showOverlay,        \* useState showOverlay of App: the overlay is mounted
    clipboard,          \* what writeText last put on the clipboard, if anything
    service,            \* the HTTP parse service: its configuration and requests
    quiet,              \* milliseconds since the debounce timer was last set
    probe               \* argument and result of the last catalog call

overlayVars == <<inputText, epoch, selectedIndex, loading, error, info,
                 confidence, isClipboardText, debounceTimeoutRef,
                 abortControllerRef, attempts, formatStats,
                 apiKey, initialized, method, showOverlay, clipboard>>

\* what the overlay shows of a result
display == <<epoch, selectedIndex, confidence, error, info>>

vars == <<inputText, epoch, selectedIndex, loading, error, info,
          confidence, isClipboardText, debounceTimeoutRef,
          abortControllerRef, attempts, formatStats,
          apiKey, initialized, method, showOverlay, clipboard, service,
          quiet, probe>>

(***************************************************************************)
(* JavaScript values                                                       *)
(***************************************************************************)

null == <<>>

Some(x) == <<x>>

Val(o) == o[1]

\* k as a JavaScript number that is a whole format index
Whole(k) == 2 * k

\* k + 0.5 as a JavaScript number
AndAHalf(k) == 2 * k + 1

IsWhole(n) == n % 2 = 0

DigitChars == <<"0", "1", "2", "3", "4", "5", "6", "7", "8", "9">>

IsDigit(c) == \E d \in 1..10 : DigitChars[d] = c

DigitVal(c) == (CHOOSE d \in 1..10 : DigitChars[d] = c) - 1

\* largest value a 32-bit signed integer holds
MaxInt32 == 2147483647

\* Number.parseInt(digits, 10) for a run of decimal digits.  A value above
\* MaxInt32 is kept as MaxInt32 + "overflow": the caller only compares the
\* number with the bounds, so every such value behaves alike.
RECURSIVE parseIntFrom(_, _, _)
parseIntFrom(digits, k, acc) ==
    IF k > Len(digits) THEN [value |-> acc, big |-> FALSE]
    ELSE LET d == DigitVal(digits[k]) IN
         IF acc > (MaxInt32 - d) \div 10
         THEN [value |-> MaxInt32, big |-> TRUE]
         ELSE parseIntFrom(digits, k + 1, acc * 10 + d)

parseInt(digits) == parseIntFrom(digits, 1, 0)

\* String(n) for a non-negative integer
RECURSIVE numberToString(_)
numberToString(n) ==
    IF n < 10 THEN <<DigitChars[n + 1]>>
    ELSE numberToString(n \div 10) \o <<DigitChars[(n % 10) + 1]>>

\* String(n) for any integer
toString(n) == IF n < 0 THEN <<"-">> \o numberToString(0 - n) ELSE numberToString(n)

IsSpace(c) == c = " "

\* String.prototype.trim
RECURSIVE trim(_)
trim(s) ==
    IF s = <<>> THEN s
    ELSE IF IsSpace(Head(s)) THEN trim(Tail(s))
    ELSE IF IsSpace(s[Len(s)]) THEN trim(SubSeq(s, 1, Len(s) - 1))
    ELSE s

(***************************************************************************)
(* Format catalog                                                          *)
(***************************************************************************)

formats == <<
    [code |-> <<":", "d">>, description |-> "Short Date"],
    [code |-> <<":", "D">>, description |-> "Long Date"],
    [code |-> <<":", "t">>, description |-> "Short Time"],
    [code |-> <<":", "T">>, description |-> "Long Time"],
    [code |-> <<":", "f">>, description |-> "Short Date/Time"],
    [code |-> <<":", "F">>, description |-> "Long Date/Time"],
    [code |-> <<":", "R">>, description |-> "Relative Time"] >>

\* the letters of the character class [dDtTfFR]
CodeLetters == {"d", "D", "t", "T", "f", "F", "R"}

\* formats.findIndex(f => f.code === code), -1 when there is none
findIndex(code) ==
    IF \E k \in 1..Len(formats) : formats[k].code = code
    THEN (CHOOSE k \in 1..Len(formats) : formats[k].code = code /\
            \A j \in 1..(k - 1) : formats[j].code # code) - 1
    ELSE -1

\* formatDiscordTimestamp(epoch, formatIndex); formatIndex is a JavaScript
\* number in half units.  formats[x] for a fractional x is undefined and
\* reading .code of it throws: the result is null then.
formatDiscordTimestamp(e, formatIndex) ==
    LET idx == IF formatIndex < Whole(0) \/ formatIndex >= Whole(Len(formats))
               THEN Whole(0) ELSE formatIndex
    IN  IF IsWhole(idx)
        THEN Some(<<"<", "t", ":">> \o toString(e) \o formats[(idx \div 2) + 1].code \o <<">">>)
        ELSE null

\* length of the run of digits of text that starts at position p
RECURSIVE digitRun(_, _)
digitRun(text, p) ==
    IF p <= Len(text) /\ IsDigit(text[p]) THEN 1 + digitRun(text, p + 1) ELSE 0

\* whether /<t:(\d+)(:[dDtTfFR])>/ matches text at position p
matchesAt(text, p) ==
    LET n == digitRun(text, p + 3) IN
    /\ p + 3 <= Len(text)
    /\ text[p] = "<" /\ text[p + 1] = "t" /\ text[p + 2] = ":"
    /\ n >= 1
    /\ p + 3 + n + 2 <= Len(text)
    /\ text[p + 3 + n] = ":"
    /\ text[p + 3 + n + 1] \in CodeLetters
    /\ text[p + 3 + n + 2] = ">"

\* text.match(timestampRegex): the leftmost match, as its two groups
regexMatch(text) ==
    IF \E p \in 1..Len(text) : matchesAt(text, p)
    THEN LET p == CHOOSE q \in 1..Len(text) :
                    matchesAt(text, q) /\ \A r \in 1..(q - 1) : ~matchesAt(text, r)
             n == digitRun(text, p + 3)
         IN  Some([digits |-> SubSeq(text, p + 3, p + 3 + n - 1),
                   code   |-> SubSeq(text, p + 3 + n, p + 3 + n + 1)])
    ELSE null

\* the range check of parseExistingTimestamp
epochInRange(n) == n.value > 0 /\ ~n.big /\ n.value < MaxInt32

parseExistingTimestamp(text) ==
    LET match == regexMatch(text) IN
    IF match # null
    THEN LET n == parseInt(Val(match).digits) IN
         IF epochInRange(n)
         THEN Some([epoch |-> n.value, formatCode |-> Val(match).code])
         ELSE null
    ELSE null

(***************************************************************************)
(* Usage statistics                                                        *)
(***************************************************************************)

formatCodes == <<"d", "D", "t", "T", "f", "F", "R">>

\* what getFormatStats returns when the store cannot be read
defaultStats == [c \in CodeLetters |-> 0]

\* stats[code] || 0
countOf(stats, code) == IF code \in DOMAIN stats THEN stats[code] ELSE 0

\* mostUsedFrom in which a later format wins a tie
RECURSIVE mostUsedFrom_lastWins(_, _, _, _)
mostUsedFrom_lastWins(stats, k, maxCount, mostUsedIndex) ==
    IF k > Len(formatCodes) THEN mostUsedIndex
    ELSE LET count == countOf(stats, formatCodes[k]) IN
         IF count >= maxCount
         THEN mostUsedFrom_lastWins(stats, k + 1, count, k - 1)
         ELSE mostUsedFrom_lastWins(stats, k + 1, maxCount, mostUsedIndex)

\* the forEach loop of getMostUsedFormatIndex, from position k on
RECURSIVE mostUsedFrom(_, _, _, _)
mostUsedFrom(stats, k, maxCount, mostUsedIndex) ==
    IF k > Len(formatCodes) THEN mostUsedIndex
    ELSE LET count == countOf(stats, formatCodes[k]) IN
         IF count > maxCount
         THEN mostUsedFrom(stats, k + 1, count, k - 1)
         ELSE mostUsedFrom(stats, k + 1, maxCount, mostUsedIndex)

\* getMostUsedFormatIndex that answers the row selected at the moment
getMostUsedFormatIndex_keepsSelection(stats) == selectedIndex \div 2

getMostUsedFormatIndex(stats) == mostUsedFrom(stats, 1, 0, 0)

(***************************************************************************)
(* Deterministic parser (chrono-node behind parseFallback)                 *)
(***************************************************************************)

TextFivePm == <<"5", "p", "m">>
TextAsdf == <<"a", "s", "d", "f">>
TextEpochZero == <<"1", "9", "7", "0", "-", "0", "1", "-", "0", "1", "T", "0", "0", ":", "0", "0", "Z">>
TextNormalized == <<"5", ":", "0", "0", " ", "P", "M">>
TextUnparseable == <<"?">>
TextF == <<"f">>

\* chrono.parseDate(text, new Date(), {forwardDate: true}) followed by
\* Math.floor(getTime() / 1000): the library is outside the repository, so
\* it is a fixed table from the texts of the model to dates.
\* 1970-01-01T00:00Z is the instant 0.
chronoParseDate(text) ==
    CASE text = TextFivePm -> Some(1736953200)
      [] text = TextNormalized -> Some(1737039600)
      [] text = TextEpochZero -> Some(0)
      [] OTHER -> null

parseFallback(text) == chronoParseDate(text)

\* JavaScript truthiness of a `number | null`
Truthy(n) == n # null /\ Val(n) # 0

(***************************************************************************)
(* Intent Normalizer reply and its validation (parseWithLLM)               *)
(***************************************************************************)

AllTyped == [normalizedText |-> "string", suggestedFormatIndex |-> "number",
             confidence |-> "number", reasoning |-> "string"]

\* replies whose JSON passes the checks of parseWithLLM
WellFormedReplies ==
    [kind : {"json"},
     normalizedText : {TextNormalized, TextUnparseable, TextEpochZero},
     suggestedFormatIndex : {Whole(6), AndAHalf(2)},
     confidence : {0, 30},
     types : {AllTyped}]

BaseReply == [kind |-> "json", normalizedText |-> TextNormalized,
              suggestedFormatIndex |-> Whole(6), confidence |-> 30,
              types |-> AllTyped]

\* replies that break one rule each
MalformedReplies ==
    {[BaseReply EXCEPT !.normalizedText = <<>>],
     [BaseReply EXCEPT !.normalizedText = <<" ">>],
     [BaseReply EXCEPT !.suggestedFormatIndex = Whole(9)],
     [BaseReply EXCEPT !.suggestedFormatIndex = Whole(7)],
     [BaseReply EXCEPT !.suggestedFormatIndex = Whole(-1)],
     [BaseReply EXCEPT !.confidence = 150],
     [BaseReply EXCEPT !.confidence = 101],
     [BaseReply EXCEPT !.confidence = -10],
     [BaseReply EXCEPT !.types.normalizedText = "undefined"],
     [BaseReply EXCEPT !.types.suggestedFormatIndex = "string"],
     [BaseReply EXCEPT !.types.confidence = "undefined"],
     [BaseReply EXCEPT !.types.reasoning = "undefined"]}

\* the call ends without JSON: the 5 second timeout wins the race, the
\* provider fails, the reply has no content, the content is not JSON, or
\* the request was aborted
FailedCalls ==
    {[BaseReply EXCEPT !.kind = k] :
        k \in {"timeout", "provider_error", "no_content", "bad_json", "aborted"}}

Replies == WellFormedReplies \cup MalformedReplies \cup FailedCalls

\* invalidResponse without the upper bound of the format index
invalidResponse_noUpperIndex(parsed) ==
    \/ parsed.types.normalizedText # "string"
    \/ parsed.types.suggestedFormatIndex # "number"
    \/ parsed.types.confidence # "number"
    \/ parsed.types.reasoning # "string"
    \/ parsed.suggestedFormatIndex < Whole(0)
    \/ parsed.confidence < 0
    \/ parsed.confidence > 100
    \/ Len(trim(parsed.normalizedText)) = 0

\* the condition under which parseWithLLM throws 'Invalid response format'
invalidResponse(parsed) ==
    \/ parsed.types.normalizedText # "string"
    \/ parsed.types.suggestedFormatIndex # "number"
    \/ parsed.types.confidence # "number"
    \/ parsed.types.reasoning # "string"
    \/ parsed.suggestedFormatIndex < Whole(0)
    \/ parsed.suggestedFormatIndex > Whole(6)
    \/ parsed.confidence < 0
    \/ parsed.confidence > 100
    \/ Len(trim(parsed.normalizedText)) = 0

\* parseWithLLM: the LLMResponse, or null for every failure
parseWithLLM(reply) ==
    IF reply.kind = "json" /\ ~invalidResponse(reply)
    THEN Some([normalizedText |-> reply.normalizedText,
               suggestedFormatIndex |-> reply.suggestedFormatIndex,
               confidence |-> reply.confidence])
    ELSE null

(***************************************************************************)
(* Overlay component                                                       *)
(***************************************************************************)

\* most parseInput invocations of one run of the overlay
MaxAttempts == 2

TextMarkup == <<"<", "t", ":", "1", "7", "0", "0", "0", "0", "0", "0", "0", "0", ":", "D", ">">>
TextBlank == <<" ">>

\* texts the user types or pastes
UserTexts == {<<>>, TextBlank, TextFivePm, TextAsdf, TextEpochZero, TextMarkup}

\* texts the clipboard may hold when the overlay opens
ClipboardTexts == {<<>>, TextAsdf, TextFivePm, TextMarkup}

\* usage histograms the store may hold when the overlay opens
Histograms ==
    {defaultStats,
     [defaultStats EXCEPT !["t"] = 3, !["F"] = 3]}

InfoNormalized == "Enter a date/time expression like \"tomorrow at 2pm\" or \"next Friday\""
ErrorNormalized == "Could not understand that time expression. Try something like \"tomorrow at 2pm\" or \"next Friday\"."
InfoFallback == "Enter a date/time expression like \"Jan 15 at 3pm\" or \"in 2 hours\""
ErrorFallback == "Could not understand that time expression. Try being more specific like \"Jan 15 at 3pm\" or \"in 2 hours\"."

Ids == 1..Len(attempts)

\* an attempt between its first await and its end
InFlight(a) == attempts[a].pc # "done"

\* abortCurrent with the call of abort() left out
abortCurrent_noAbort == attempts

\* AbortController.abort() on the controller the ref holds.  An attempt in
\* flight reads nothing but signal.aborted from then on, so what its closure
\* holds (text, isFromClipboard, stats) is dropped from the state.
abortCurrent ==
    IF abortControllerRef # 0
    THEN [attempts EXCEPT ![abortControllerRef] =
            [@ EXCEPT !.aborted = TRUE, !.text = <<>>,
                      !.isFromClipboard = FALSE, !.stats = defaultStats]]
    ELSE attempts

\* existingIndex that forgets the code of the timestamp
existingIndex_alwaysZero(existing) == Whole(0)

\* index chosen for a detected timestamp: findIndex, 0 when it finds none
existingIndex(existing) ==
    LET formatIndex == findIndex(existing.formatCode) IN
    IF formatIndex >= 0 THEN Whole(formatIndex) ELSE Whole(0)

\* clearTimeout that leaves the callback pending
clearTimeout_skipped == debounceTimeoutRef

\* clearTimeout(debounceTimeoutRef.current): no callback is pending afterwards
clearTimeout == null

\* idleState that keeps the result and the error on display
idleState_keepsResult ==
    [epoch |-> epoch, error |-> error, info |-> null, loading |-> FALSE]

\* idleState without setLoading(false)
idleState_keepsLoading ==
    [epoch |-> null, error |-> null, info |-> null, loading |-> loading]

\* what the effect sets when the trimmed input is empty
idleState ==
    [epoch |-> null, error |-> null, info |-> null, loading |-> FALSE]

\* The effect on [inputText], run after a handler has set inputText to text
\* and isClipboardText to clip; e0, s0, i0 and m0 are epoch, selectedIndex,
\* info and the provenance of the displayed result as the handler left them.
inputEffect(text, clip, e0, s0, i0, m0) ==
    LET existing == parseExistingTimestamp(trim(text)) IN
    /\ inputText' = text
    /\ isClipboardText' = clip
    /\ attempts' = abortCurrent
    /\ abortControllerRef' = 0
    /\ UNCHANGED <<confidence, formatStats, apiKey>>
    /\ IF trim(text) # <<>>
       THEN IF existing # null
            THEN /\ epoch' = Some(Val(existing).epoch)
                 /\ selectedIndex' = existingIndex(Val(existing))
                 /\ error' = null
                 /\ loading' = FALSE
                 /\ info' = i0
                 /\ debounceTimeoutRef' = clearTimeout
                 /\ method' = "existing-markup"
            ELSE /\ loading' = TRUE
                 /\ debounceTimeoutRef' = Some([text |-> trim(text), isFromClipboard |-> clip])
                 /\ epoch' = e0
                 /\ selectedIndex' = s0
                 /\ info' = i0
                 /\ method' = m0
                 /\ UNCHANGED error
       ELSE /\ epoch' = idleState.epoch
            /\ error' = idleState.error
            /\ info' = idleState.info
            /\ loading' = idleState.loading
            /\ debounceTimeoutRef' = clearTimeout
            /\ selectedIndex' = s0
            /\ method' = "none"

\* state updates of a handler that leaves inputText as it is: no effect runs
noEffect(clip, e0, s0, i0, m0) ==
    /\ isClipboardText' = clip
    /\ epoch' = e0
    /\ selectedIndex' = s0
    /\ info' = i0
    /\ method' = m0
    /\ UNCHANGED <<inputText, loading, error, confidence, debounceTimeoutRef,
                   abortControllerRef, attempts, formatStats, apiKey>>

\* the test of the mount effect that takes every string but null for text
hasClipboardText_notNull(clipboardText) == clipboardText # null

\* `if (clipboardText)` of the mount effect: readText gave a non-empty
\* string; a readText that throws leaves the try block before the test
hasClipboardText(clipboardText) ==
    clipboardText # null /\ Val(clipboardText) # <<>>

\* the mount effect: initStats, readText, then the clipboard text becomes the
\* input; clipboardText is null when readText fails
initialize(clipboardText) ==
    /\ ~initialized
    /\ initialized' = TRUE
    /\ IF hasClipboardText(clipboardText)
       THEN LET text == Val(clipboardText)
                existing == parseExistingTimestamp(text)
                clip == IF existing # null THEN isClipboardText ELSE TRUE
                e0 == IF existing # null THEN Some(Val(existing).epoch) ELSE epoch
                s0 == IF existing # null THEN existingIndex(Val(existing)) ELSE selectedIndex
                m0 == IF existing # null THEN "existing-markup" ELSE method
            IN  IF text # inputText
                THEN inputEffect(text, clip, e0, s0, info, m0)
                ELSE noEffect(clip, e0, s0, info, m0)
       ELSE noEffect(isClipboardText, epoch, selectedIndex, info, method)

\* onChange of the textarea; collapsed tells whether the selection is a
\* single cursor position
handleInputChange(newValue, collapsed) ==
    /\ newValue # inputText
    /\ UNCHANGED initialized
    /\ LET replace == isClipboardText
           text == IF replace /\ collapsed
                   THEN (IF newValue = <<>> THEN <<>> ELSE <<newValue[Len(newValue)]>>)
                   ELSE newValue
           clip == IF replace THEN FALSE ELSE isClipboardText
           i0 == IF replace THEN null ELSE info
       IN  IF text # inputText
           THEN inputEffect(text, clip, epoch, selectedIndex, i0, method)
           ELSE noEffect(clip, epoch, selectedIndex, i0, method)

\* debounceFire whose parseInput starts without setError(null)
debounceFire_keepsError ==
    /\ debounceTimeoutRef # null
    /\ Len(attempts) < MaxAttempts
    /\ attempts' = Append(attempts,
            [text |-> Val(debounceTimeoutRef).text,
             isFromClipboard |-> Val(debounceTimeoutRef).isFromClipboard,
             pc |-> "getFormatStats", aborted |-> FALSE,
             stats |-> defaultStats, late |-> FALSE])
    /\ abortControllerRef' = Len(attempts) + 1
    /\ debounceTimeoutRef' = null
    /\ info' = null
    /\ UNCHANGED <<inputText, epoch, selectedIndex, loading, confidence, error,
                   isClipboardText, formatStats, apiKey, initialized, method>>

\* the debounce timer fires: parseInput up to its first await
debounceFire ==
    /\ debounceTimeoutRef # null
    /\ Len(attempts) < MaxAttempts
    /\ attempts' = Append(attempts,
            [text |-> Val(debounceTimeoutRef).text,
             isFromClipboard |-> Val(debounceTimeoutRef).isFromClipboard,
             pc |-> "getFormatStats", aborted |-> FALSE,
             stats |-> defaultStats, late |-> FALSE])
    /\ abortControllerRef' = Len(attempts) + 1
    /\ debounceTimeoutRef' = null
    /\ error' = null
    /\ info' = null
    /\ UNCHANGED <<inputText, epoch, selectedIndex, loading, confidence,
                   isClipboardText, formatStats, apiKey, initialized, method>>

\* the record of an attempt that has run to its end: its closure is gone,
\* what stays is the controller with its aborted flag; late tells whether
\* the normalizer answered it after a younger attempt had ended un-aborted
ended(a) ==
    [attempts EXCEPT ![a] =
        [text |-> <<>>, isFromClipboard |-> FALSE, pc |-> "done",
         aborted |-> attempts[a].aborted, stats |-> defaultStats,
         late |-> (\E b \in Ids : b > a /\ ~InFlight(b) /\ ~attempts[b].aborted)
                  /\ attempts[a].pc = "parseWithLLM"]]

\* abortedReturn whose finally block switches loading off unconditionally
abortedReturn_finallyUnconditional(a) ==
    /\ attempts' = ended(a)
    /\ loading' = FALSE
    /\ UNCHANGED <<inputText, epoch, selectedIndex, error, info,
                   confidence, isClipboardText, debounceTimeoutRef,
                   abortControllerRef, formatStats, apiKey, initialized,
                   method>>

\* the attempt returns at one of its abort checks; its finally block leaves
\* loading alone because the signal is aborted
abortedReturn(a) ==
    /\ attempts' = ended(a)
    /\ UNCHANGED <<inputText, epoch, selectedIndex, loading, error, info,
                   confidence, isClipboardText, debounceTimeoutRef,
                   abortControllerRef, formatStats, apiKey, initialized,
                   method>>

\* parseInput from its last abort check to the end of its finally block
resolve(a, result, stats) ==
    LET text == attempts[a].text
        normalizedEpoch == IF result # null
                           THEN parseFallback(Val(result).normalizedText) ELSE null
        fallbackEpoch == parseFallback(text)
        unresolvedInfo(i) == IF attempts[a].isFromClipboard THEN Some(i) ELSE info
        unresolvedError(e) == IF attempts[a].isFromClipboard THEN error ELSE Some(e)
    IN
    /\ attempts' = ended(a)
    /\ loading' = FALSE
    /\ UNCHANGED <<inputText, isClipboardText, debounceTimeoutRef,
                   abortControllerRef, formatStats, apiKey, initialized>>
    /\ IF result # null
       THEN IF Truthy(normalizedEpoch)
            THEN /\ epoch' = normalizedEpoch
                 /\ selectedIndex' = Val(result).suggestedFormatIndex
                 /\ confidence' = Val(result).confidence
                 /\ method' = "llm-normalized"
                 /\ UNCHANGED <<error, info>>
            ELSE IF Truthy(fallbackEpoch)
                 THEN /\ epoch' = fallbackEpoch
                      /\ selectedIndex' = Val(result).suggestedFormatIndex
                      /\ confidence' = (Val(result).confidence * 7) \div 10
                      /\ method' = "llm-fallback-raw"
                      /\ UNCHANGED <<error, info>>
                 ELSE /\ epoch' = null
                      /\ info' = unresolvedInfo(InfoNormalized)
                      /\ error' = unresolvedError(ErrorNormalized)
                      /\ method' = "unresolved"
                      /\ UNCHANGED <<selectedIndex, confidence>>
       ELSE IF Truthy(fallbackEpoch)
            THEN /\ epoch' = fallbackEpoch
                 /\ selectedIndex' = Whole(getMostUsedFormatIndex(stats))
                 /\ confidence' = 70
                 /\ method' = "deterministic-fallback"
                 /\ UNCHANGED <<error, info>>
            ELSE /\ epoch' = null
                 /\ info' = unresolvedInfo(InfoFallback)
                 /\ error' = unresolvedError(ErrorFallback)
                 /\ method' = "unresolved"
                 /\ UNCHANGED <<selectedIndex, confidence>>

\* getFormatStats whose failed read returns the counts of the last good read
getFormatStats_cachedOnFailure(readFails) == formatStats

\* getFormatStats: the stored histogram, the default one when invoke fails
getFormatStats(readFails) == IF readFails THEN defaultStats ELSE formatStats

\* getFormatStats settles and parseInput runs to its next await
statsReturn(a, readFails) ==
    LET stats == getFormatStats(readFails) IN
    /\ a \in Ids
    /\ attempts[a].pc = "getFormatStats"
    /\ IF attempts[a].aborted
       THEN abortedReturn(a)
       ELSE IF apiKey
            THEN /\ attempts' = [attempts EXCEPT ![a].pc = "parseWithLLM", ![a].stats = stats]
                 /\ UNCHANGED <<inputText, epoch, selectedIndex, loading, error,
                                info, confidence, isClipboardText,
                                debounceTimeoutRef, abortControllerRef,
                                formatStats, apiKey, initialized, method>>
            ELSE resolve(a, null, stats)

\* llmReturn with the abort check after the API call left out
llmReturn_noAbortCheck(a, reply) ==
    /\ a \in Ids
    /\ attempts[a].pc = "parseWithLLM"
    /\ reply.kind = "aborted" => attempts[a].aborted
    /\ resolve(a, parseWithLLM(reply), attempts[a].stats)

\* parseWithLLM settles and parseInput runs to its end
llmReturn(a, reply) ==
    /\ a \in Ids
    /\ attempts[a].pc = "parseWithLLM"
    /\ reply.kind = "aborted" => attempts[a].aborted
    /\ IF attempts[a].aborted
       THEN abortedReturn(a)
       ELSE resolve(a, parseWithLLM(reply), attempts[a].stats)

\* `confidence < 0.5 &&` of the render: the low-confidence warning is shown
showsWarning == confidence < 50

(***************************************************************************)
(* The overlay, from mount on                                              *)
(***************************************************************************)

ProbeIdle == [op |-> "none"]

InitOverlay ==
    /\ inputText = <<>>
    /\ epoch = null
    /\ selectedIndex = Whole(0)
    /\ loading = FALSE
    /\ error = null
    /\ info = null
    /\ confidence = 100
    /\ isClipboardText = FALSE
    /\ debounceTimeoutRef = null
    /\ abortControllerRef = 0
    /\ attempts = <<>>
    /\ formatStats \in Histograms
    /\ apiKey \in BOOLEAN
    /\ initialized = FALSE
    /\ method = "none"
    /\ showOverlay = TRUE
    /\ clipboard = null

\* addresses requests come from (request.ip)
Ips == {"10.0.0.1", "10.0.0.2"}

\* the parse service before its first request: no handler has run, the
\* usage table is empty, the rate-limit store has counted nothing and the
\* database connection is open
ServiceIdle(openaiApiKey) ==
    [openaiApiKey |-> openaiApiKey, requests |-> <<>>, usageLog |-> 0,
     hits |-> [ip \in Ips |-> 0], closed |-> FALSE]

Init == InitOverlay /\ probe = ProbeIdle /\ service = ServiceIdle(FALSE) /\ quiet = 0

Initialize ==
    \E clipboardText \in {null} \cup {Some(t) : t \in ClipboardTexts} :
        showOverlay /\ initialize(clipboardText) /\ UNCHANGED <<showOverlay, clipboard, service, quiet, probe>>

HandleInputChange ==
    \E newValue \in UserTexts, collapsed \in BOOLEAN :
        showOverlay /\ handleInputChange(newValue, collapsed) /\ UNCHANGED <<showOverlay, clipboard, service, quiet, probe>>

DebounceFire == showOverlay /\ debounceFire /\ UNCHANGED <<showOverlay, clipboard, service, quiet, probe>>

StatsReturn ==
    \E a \in Ids, readFails \in BOOLEAN :
        showOverlay /\ statsReturn(a, readFails) /\ UNCHANGED <<showOverlay, clipboard, service, quiet, probe>>

\* the replies the overlay tells apart: the well-formed ones, and one of each
\* way to end without a result
OverlayReplies ==
    WellFormedReplies
    \cup {[BaseReply EXCEPT !.suggestedFormatIndex = Whole(9)]}
    \cup {[BaseReply EXCEPT !.kind = k] : k \in {"timeout", "aborted"}}

LLMReturn ==
    \E a \in Ids, reply \in OverlayReplies :
        showOverlay /\ llmReturn(a, reply) /\ UNCHANGED <<showOverlay, clipboard, service, quiet, probe>>

Next ==
    \/ Initialize
    \/ HandleInputChange
    \/ DebounceFire
    \/ StatsReturn
    \/ LLMReturn

Spec == Init /\ [][Next]_vars

(***************************************************************************)
(* One resolution at a time, with a record of each step: which handler     *)
(* ran, what the attempt held and which reply it consumed                  *)
(***************************************************************************)

\* most parseInput invocations of one recorded run
MaxProbed == 1

\* the record of a step of attempt a
stepRecord(op, a, stats, reply) ==
    [op |-> op, text |-> attempts[a].text, aborted |-> attempts[a].aborted,
     stats |-> stats, reply |-> reply,
     selectedIndex |-> selectedIndex, confidence |-> confidence]

NoReply == [BaseReply EXCEPT !.kind = "not_configured"]

PendingReply == [BaseReply EXCEPT !.kind = "pending"]

ProbedInitialize ==
    \E clipboardText \in {null} \cup {Some(t) : t \in ClipboardTexts} :
        showOverlay /\ initialize(clipboardText) /\ probe' = ProbeIdle
        /\ UNCHANGED <<showOverlay, clipboard, service, quiet>>

ProbedInputChange ==
    \E newValue \in UserTexts, collapsed \in BOOLEAN :
        showOverlay /\ handleInputChange(newValue, collapsed) /\ probe' = ProbeIdle
        /\ UNCHANGED <<showOverlay, clipboard, service, quiet>>

ProbedDebounceFire ==
    /\ Len(attempts) < MaxProbed
    /\ showOverlay
    /\ debounceFire
    /\ probe' = ProbeIdle
    /\ UNCHANGED <<showOverlay, clipboard, service, quiet>>

ProbedStatsReturn ==
    \E a \in Ids, readFails \in BOOLEAN :
        /\ showOverlay
        /\ statsReturn(a, readFails)
        /\ UNCHANGED <<showOverlay, clipboard, service, quiet>>
        /\ probe' = stepRecord("statsReturn", a,
                        IF readFails THEN defaultStats ELSE formatStats,
                        IF apiKey THEN PendingReply ELSE NoReply)

ProbedLLMReturn ==
    \E a \in Ids, reply \in Replies :
        /\ showOverlay
        /\ llmReturn(a, reply)
        /\ UNCHANGED <<showOverlay, clipboard, service, quiet>>
        /\ probe' = stepRecord("llmReturn", a, attempts[a].stats, reply)

NextPipeline ==
    \/ ProbedInitialize
    \/ ProbedInputChange
    \/ ProbedDebounceFire
    \/ ProbedStatsReturn
    \/ ProbedLLMReturn

SpecPipeline == Init /\ [][NextPipeline]_vars

(***************************************************************************)
(* Navigation, copy and close                                              *)
(***************************************************************************)

\* formats[selectedIndex] is an entry of the catalog; for every other number
\* it is undefined and reading .code of it throws
hasFormat(index) == IsWhole(index) /\ index >= Whole(0) /\ index < Whole(Len(formats))

\* the template literal of handleCopy
discordCode(e, index) ==
    <<"<", "t", ":">> \o toString(e) \o formats[(index \div 2) + 1].code \o <<">">>

\* the backend command increment_format_usage: one more use of formatCode
storeIncrement(stats, formatCode) ==
    [stats EXCEPT ![formatCode] = @ + 1]

\* incrementFormatUsage without the mapping from index to code
incrementFormatUsage_alwaysFirst(stats, formatIndex, storeFails) ==
    IF storeFails THEN stats ELSE storeIncrement(stats, formatCodes[1])

\* incrementFormatUsage(formatIndex): the histogram afterwards; a falsy
\* formatCode returns early and a failing invoke is caught and logged
incrementFormatUsage(stats, formatIndex, storeFails) ==
    IF ~hasFormat(formatIndex) \/ storeFails
    THEN stats
    ELSE storeIncrement(stats, formatCodes[(formatIndex \div 2) + 1])

\* onClose of the overlay: App hides it, and the cleanup of the unmount
\* clears the timer and aborts the controller the ref holds
onClose ==
    /\ showOverlay' = FALSE
    /\ debounceTimeoutRef' = null
    /\ attempts' = abortCurrent

\* handleCopy that writes the code letter without its colon
copied_noColon(e, index) ==
    <<"<", "t", ":">> \o toString(e) \o Tail(formats[(index \div 2) + 1].code) \o <<">">>

\* what handleCopy hands to writeText
copied(e, index) == discordCode(e, index)

\* handleCopy (Enter, or a click on a row) with an epoch on display
handleCopy(writeFails, storeFails) ==
    /\ epoch # null
    /\ IF hasFormat(selectedIndex) /\ ~writeFails
       THEN /\ clipboard' = Some(copied(Val(epoch), selectedIndex))
            /\ formatStats' = incrementFormatUsage(formatStats, selectedIndex, storeFails)
            /\ onClose
       ELSE UNCHANGED <<clipboard, formatStats, showOverlay, debounceTimeoutRef, attempts>>
    /\ UNCHANGED <<inputText, epoch, selectedIndex, loading, error, info,
                   confidence, isClipboardText, abortControllerRef, apiKey,
                   initialized, method>>

\* handleKeyDown that stops at the ends of the catalog
handleKeyDown_noWrap(back) ==
    /\ selectedIndex' =
          IF back
          THEN (IF selectedIndex > Whole(0) THEN selectedIndex - Whole(1)
                ELSE selectedIndex)
          ELSE (IF selectedIndex < Whole(Len(formats) - 1) THEN selectedIndex + Whole(1)
                ELSE selectedIndex)
    /\ UNCHANGED <<inputText, epoch, loading, error, info, confidence,
                   isClipboardText, debounceTimeoutRef, abortControllerRef,
                   attempts, formatStats, apiKey, initialized, method,
                   showOverlay, clipboard>>

\* handleKeyDown for the keys that move the selection; back is ArrowUp,
\* ArrowLeft or Shift+Tab, otherwise ArrowDown, ArrowRight or Tab
handleKeyDown(back) ==
    /\ selectedIndex' =
          IF back
          THEN (IF selectedIndex > Whole(0) THEN selectedIndex - Whole(1)
                ELSE Whole(Len(formats) - 1))
          ELSE (IF selectedIndex < Whole(Len(formats) - 1) THEN selectedIndex + Whole(1)
                ELSE Whole(0))
    /\ UNCHANGED <<inputText, epoch, loading, error, info, confidence,
                   isClipboardText, debounceTimeoutRef, abortControllerRef,
                   attempts, formatStats, apiKey, initialized, method,
                   showOverlay, clipboard>>

\* handleKeyDown for Escape
handleEscape ==
    /\ onClose
    /\ UNCHANGED <<inputText, epoch, selectedIndex, loading, error, info,
                   confidence, isClipboardText, abortControllerRef, formatStats,
                   apiKey, initialized, method, clipboard>>

\* the pointer enters the row of index; rows exist while an epoch is shown
handleRowMouseEnter(index) ==
    /\ epoch # null
    /\ selectedIndex' = Whole(index)
    /\ UNCHANGED <<inputText, epoch, loading, error, info, confidence,
                   isClipboardText, debounceTimeoutRef, abortControllerRef,
                   attempts, formatStats, apiKey, initialized, method,
                   showOverlay, clipboard>>

(***************************************************************************)
(* A session up to its confirmation: resolution, navigation, copy          *)
(***************************************************************************)

\* most parseInput invocations of one session that ends with a copy
MaxConfirmed == 1

\* texts typed in such a session
ConfirmTexts == {<<>>, TextFivePm, TextAsdf, TextMarkup}

\* normalizer outcomes of such a session
ConfirmReplies ==
    {BaseReply,
     [BaseReply EXCEPT !.suggestedFormatIndex = AndAHalf(2)],
     [BaseReply EXCEPT !.kind = "timeout"]}

ConfirmInitialize ==
    \E clipboardText \in {null, Some(TextAsdf)} :
        showOverlay /\ initialize(clipboardText) /\ probe' = ProbeIdle
        /\ UNCHANGED <<showOverlay, clipboard, service, quiet>>

ConfirmInputChange ==
    \E newValue \in ConfirmTexts, collapsed \in BOOLEAN :
        showOverlay /\ handleInputChange(newValue, collapsed) /\ probe' = ProbeIdle
        /\ UNCHANGED <<showOverlay, clipboard, service, quiet>>

ConfirmDebounceFire ==
    /\ Len(attempts) < MaxConfirmed
    /\ showOverlay
    /\ debounceFire
    /\ probe' = ProbeIdle
    /\ UNCHANGED <<showOverlay, clipboard, service, quiet>>

ConfirmStatsReturn ==
    \E a \in Ids, readFails \in BOOLEAN :
        /\ showOverlay
        /\ statsReturn(a, readFails)
        /\ UNCHANGED <<showOverlay, clipboard, service, quiet>>
        /\ probe' = [op |-> "statsReturn", readFails |-> readFails,
                     text |-> attempts[a].text, aborted |-> attempts[a].aborted,
                     error |-> error]

ConfirmLLMReturn ==
    \E a \in Ids, reply \in ConfirmReplies :
        /\ showOverlay
        /\ llmReturn(a, reply)
        /\ UNCHANGED <<showOverlay, clipboard, service, quiet>>
        /\ probe' = ProbeIdle

HandleKeyDown ==
    \E back \in BOOLEAN :
        showOverlay /\ handleKeyDown(back) /\ probe' = [op |-> "navigate"]
        /\ UNCHANGED <<service, quiet>>

HandleEscape ==
    showOverlay /\ handleEscape /\ probe' = [op |-> "escape"] /\ UNCHANGED <<service, quiet>>

HandleRowMouseEnter ==
    \E index \in 0..(Len(formats) - 1) :
        showOverlay /\ handleRowMouseEnter(index) /\ probe' = [op |-> "navigate"]
        /\ UNCHANGED <<service, quiet>>

HandleCopy ==
    \E writeFails \in BOOLEAN, storeFails \in BOOLEAN :
        /\ showOverlay
        /\ handleCopy(writeFails, storeFails)
        /\ UNCHANGED <<service, quiet>>
        /\ probe' = [op |-> "copy", writeFails |-> writeFails,
                     storeFails |-> storeFails, epoch |-> epoch,
                     selectedIndex |-> selectedIndex, error |-> error]

NextConfirm ==
    \/ ConfirmInitialize
    \/ ConfirmInputChange
    \/ ConfirmDebounceFire
    \/ ConfirmStatsReturn
    \/ ConfirmLLMReturn
    \/ HandleKeyDown
    \/ HandleEscape
    \/ HandleRowMouseEnter
    \/ HandleCopy

SpecConfirm == Init /\ [][NextConfirm]_vars

(***************************************************************************)
(* HTTP parse service: POST /parse                                         *)
(***************************************************************************)

\* validateResponse of OpenAIParser
validateResponse(response) ==
    /\ response.types.normalizedText = "string"
    /\ Len(trim(response.normalizedText)) # 0
    /\ response.types.suggestedFormatIndex = "number"
    /\ response.types.confidence = "number"
    /\ response.types.reasoning = "string"
    /\ ~(response.suggestedFormatIndex < Whole(0) \/ response.suggestedFormatIndex > Whole(6))
    /\ ~(response.confidence < 0 \/ response.confidence > 100)

\* OpenAIParser.parseTime once completions.create has settled: the parsed
\* reply, or null when it throws
parseTime(reply) ==
    IF reply.kind = "json" /\ validateResponse(reply)
    THEN Some([normalizedText |-> reply.normalizedText,
               suggestedFormatIndex |-> reply.suggestedFormatIndex,
               confidence |-> reply.confidence])
    ELSE null

\* the handler of POST /parse from the end of its OpenAI block on; llmResult
\* is null when no key is configured or parseTime threw
parseHandler(text, llmResult) ==
    LET normalizedEpoch == IF llmResult # null
                           THEN parseFallback(Val(llmResult).normalizedText) ELSE null
        viaOpenai == llmResult # null /\ Truthy(normalizedEpoch)
        viaRaw == llmResult # null /\ ~Truthy(normalizedEpoch) /\ Truthy(parseFallback(text))
        epoch1 == IF viaOpenai THEN normalizedEpoch
                  ELSE IF viaRaw THEN parseFallback(text) ELSE null
        epoch2 == IF epoch1 = null THEN parseFallback(text) ELSE epoch1
        viaFallback == epoch1 = null /\ Truthy(epoch2)
    IN  IF epoch2 = null
        THEN [status |-> 400, error |-> "Could not parse time expression"]
        ELSE [status |-> 200,
              epoch |-> Val(epoch2),
              suggestedFormatIndex |->
                  IF viaOpenai \/ viaRaw THEN Val(llmResult).suggestedFormatIndex
                  ELSE Whole(4),
              confidence |->
                  IF viaOpenai THEN Val(llmResult).confidence
                  ELSE IF viaRaw THEN (Val(llmResult).confidence * 7) \div 10
                  ELSE IF viaFallback THEN 70 ELSE 50,
              method |->
                  IF viaOpenai THEN "openai"
                  ELSE IF viaRaw THEN "openai-fallback" ELSE "fallback"]

\* logUsage that adds no row when the insert went well
logUsage_noRow(usageLog, failure) ==
    IF failure = "prepare" THEN null ELSE Some(usageLog)

\* DatabaseManager.logUsage on a table of usageLog rows: the table
\* afterwards, null when it throws. db.prepare is outside the try block;
\* a failure of stmt.run is caught and logged.
logUsage(usageLog, failure) ==
    IF failure = "prepare" THEN null
    ELSE IF failure = "run" THEN Some(usageLog)
    ELSE Some(usageLog + 1)

\* the handler of POST /parse from the end of its OpenAI block to its end:
\* the response it sends and the usage table it leaves
handled(text, llmResult, usageLog, failure) ==
    LET answer == parseHandler(text, llmResult)
        logged == logUsage(usageLog, failure)
    IN  IF answer.status # 200
        THEN [response |-> answer, usageLog |-> usageLog]
        ELSE IF logged = null
             THEN [response |-> [status |-> 500, error |-> "Internal server error"],
                   usageLog |-> usageLog]
             ELSE [response |-> answer, usageLog |-> Val(logged)]

\* the service s once the handler of request r has run to its end
replied(s, r, llmResult, failure) ==
    LET outcome == handled(s.requests[r].text, llmResult, s.usageLog, failure) IN
    [s EXCEPT !.requests[r].pc = "replied",
              !.requests[r].response = Some(outcome.response),
              !.usageLog = outcome.usageLog]

\* max of the rateLimit registration
max == 60

\* config.staticApiKey, by its default
staticApiKey == "STATIC_KEY_123"

API_VERSION == "1"

\* a request: its route, the address it comes from, its two headers (null
\* when missing) and the text and tz of its JSON body (null when missing)
Request(url, ip, key, version, text, tz) ==
    [url |-> url, ip |-> ip, apiKey |-> key, apiVersion |-> version,
     body |-> [text |-> text, tz |-> tz]]

\* the rateLimit registration names no keyGenerator: the plugin counts the
\* requests of each request.ip
keyGenerator(request) == request.ip

\* the rate-limit store once the plugin has counted the request
counted(request) == [service.hits EXCEPT ![keyGenerator(request)] = @ + 1]

\* the request is beyond the budget of its key
exceeded(request) == counted(request)[keyGenerator(request)] > max

\* parseRequestSchema: text is required, a string of at least one character
validBody(body) == body.text # null /\ Len(Val(body.text)) >= 1

\* setErrorHandler, by the statusCode of the error
errorHandler(statusCode) ==
    IF statusCode = 429 THEN [status |-> 429, error |-> "rate_limited"]
    ELSE IF statusCode = 400 THEN [status |-> 400, error |-> "bad_request"]
    ELSE [status |-> 500, error |-> "server_error"]

\* the preHandler hook: the response it sends, null when it lets the
\* request pass
preHandler(request) ==
    IF request.url = "/health" THEN null
    ELSE IF request.apiKey = null \/ Val(request.apiKey) # staticApiKey
         THEN Some([status |-> 401, error |-> "unauthorized"])
         ELSE IF request.apiVersion = null \/ Val(request.apiVersion) # API_VERSION
              THEN Some([status |-> 400, error |-> "bad_request"])
              ELSE null

\* what answers the request before its route handler, null when the
\* handler is reached: the rate limit (errorResponseBuilder) on arrival,
\* then the body schema of POST /parse, then the preHandler hook
rejection(request) ==
    IF exceeded(request) THEN Some([status |-> 429, error |-> "rate_limited"])
    ELSE IF request.url = "/parse" /\ ~validBody(request.body)
         THEN Some(errorHandler(400))
         ELSE preHandler(request)

\* most requests that reach the handler of POST /parse in one run
MaxRequests == 1

\* texts of the requests
ServiceTexts == {TextFivePm, TextAsdf, TextEpochZero}

\* a request arrives and is served up to its response or to the first
\* await of its handler: the call of parseTime, if a key is configured
receive(request, failure) ==
    LET counting == [service EXCEPT !.hits = counted(request)]
        r == Len(service.requests) + 1
        received == [counting EXCEPT !.requests =
                        Append(@, [text |-> Val(request.body.text),
                                   pc |-> "parseTime", response |-> null])]
    IN  IF rejection(request) # null \/ request.url # "/parse"
        THEN service' = counting
        ELSE /\ Len(service.requests) < MaxRequests
             /\ service' = IF service.openaiApiKey
                           THEN received
                           ELSE replied(received, r, null, failure)

\* the response the request got in this step, null while its handler waits
\* for parseTime
response(request) ==
    IF rejection(request) # null THEN rejection(request)
    ELSE IF request.url = "/health" THEN Some([status |-> 200, body |-> "health"])
    ELSE IF request.url = "/stats" THEN Some([status |-> 200, body |-> "stats"])
    ELSE service'.requests[Len(service'.requests)].response

\* a request to POST /parse with both headers right and a body of text
post(text) ==
    receive(Request("/parse", "10.0.0.1", Some(staticApiKey), Some(API_VERSION),
                    Some(text), Some("UTC")), "none")

\* completions.create settles for request r and the handler runs to its end
parseTimeReturn(r, reply, failure) ==
    /\ r \in 1..Len(service.requests)
    /\ service.requests[r].pc = "parseTime"
    /\ service' = replied(service, r, parseTime(reply), failure)

\* the time window of the requests counted for ip has passed
expire(ip) ==
    /\ service.hits[ip] > 0
    /\ service' = [service EXCEPT !.hits[ip] = 0]

(***************************************************************************)
(* The normalizer call and its ceiling, in the overlay and in the service. *)
(* A timer of the JavaScript runtime fires once it is due; nothing makes   *)
(* the provider answer.                                                    *)
(***************************************************************************)

\* most parseInput invocations of one such run
MaxCalls == 1

\* texts typed in such a run
CeilingTexts == {<<>>, TextFivePm, TextAsdf}

\* what the provider may send, to the overlay and to the service
CeilingReplies ==
    {BaseReply,
     [BaseReply EXCEPT !.normalizedText = TextUnparseable],
     [BaseReply EXCEPT !.suggestedFormatIndex = Whole(9)],
     [BaseReply EXCEPT !.kind = "provider_error"]}

\* the setTimeout of the Promise.race in parseWithLLM rejects
TimeoutReply == [BaseReply EXCEPT !.kind = "timeout"]

CeilingInitialize ==
    \E clipboardText \in {null, Some(TextFivePm)} :
        showOverlay /\ initialize(clipboardText)
        /\ UNCHANGED <<showOverlay, clipboard, service, quiet, probe>>

CeilingInputChange ==
    \E newValue \in CeilingTexts, collapsed \in BOOLEAN :
        showOverlay /\ handleInputChange(newValue, collapsed)
        /\ UNCHANGED <<showOverlay, clipboard, service, quiet, probe>>

CeilingDebounceFire ==
    /\ Len(attempts) < MaxCalls
    /\ showOverlay
    /\ debounceFire
    /\ UNCHANGED <<showOverlay, clipboard, service, quiet, probe>>

CeilingStatsReturn ==
    \E a \in Ids :
        showOverlay /\ statsReturn(a, FALSE)
        /\ UNCHANGED <<showOverlay, clipboard, service, quiet, probe>>

\* the provider answers the overlay before the ceiling
CeilingLLMAnswer ==
    \E a \in Ids, reply \in CeilingReplies :
        showOverlay /\ llmReturn(a, reply)
        /\ UNCHANGED <<showOverlay, clipboard, service, quiet, probe>>

\* parseWithLLM without the setTimeout of its Promise.race: no ceiling is
\* ever reached
llmTimeout_never(a) == a \in Ids /\ FALSE /\ UNCHANGED overlayVars

\* the ceiling of parseWithLLM is reached
llmTimeout(a) == llmReturn(a, TimeoutReply)

CeilingLLMTimeout ==
    \E a \in Ids :
        showOverlay /\ llmTimeout(a)
        /\ UNCHANGED <<showOverlay, clipboard, service, quiet, probe>>

ServicePost ==
    \E text \in ServiceTexts : post(text) /\ UNCHANGED <<overlayVars, quiet, probe>>

\* the provider answers the service
ServiceParseTimeReturn ==
    \E r \in 1..Len(service.requests), reply \in CeilingReplies :
        parseTimeReturn(r, reply, "none") /\ UNCHANGED <<overlayVars, quiet, probe>>

InitCeiling ==
    /\ InitOverlay
    /\ probe = ProbeIdle
    /\ service \in {ServiceIdle(k) : k \in BOOLEAN}
    /\ quiet = 0

NextCeiling ==
    \/ CeilingInitialize
    \/ CeilingInputChange
    \/ CeilingDebounceFire
    \/ CeilingStatsReturn
    \/ CeilingLLMAnswer
    \/ CeilingLLMTimeout
    \/ ServicePost
    \/ ServiceParseTimeReturn

SpecCeiling ==
    /\ InitCeiling
    /\ [][NextCeiling]_vars
    /\ WF_vars(CeilingStatsReturn)
    /\ WF_vars(CeilingLLMTimeout)

\* the same run with the debounce timer fair as well: the callback of a
\* pending setTimeout runs once it is due
SpecTerminates ==
    /\ InitCeiling
    /\ [][NextCeiling]_vars
    /\ WF_vars(CeilingDebounceFire)
    /\ WF_vars(CeilingStatsReturn)
    /\ WF_vars(CeilingLLMTimeout)

(***************************************************************************)
(* The debounce with its clock: the timer set by the effect is due 300 ms  *)
(* after the last change of the input                                      *)
(***************************************************************************)

\* the delay handed to setTimeout by the effect
debounceDelay == 300

\* time that passes between two events, in milliseconds
Elapses == {100, 150}

\* texts typed in such a run
DebounceTexts == {<<>>, TextFivePm, TextAsdf, TextMarkup}

\* whether the effect ran in this step: it runs when inputText changed
effectRan == inputText' # inputText

TimedInitialize ==
    \E clipboardText \in {null, Some(TextFivePm), Some(TextF)} :
        /\ showOverlay /\ initialize(clipboardText)
        /\ quiet' = IF effectRan THEN 0 ELSE quiet
        /\ UNCHANGED <<showOverlay, clipboard, service, probe>>

TimedInputChange ==
    \E newValue \in DebounceTexts, collapsed \in BOOLEAN :
        /\ showOverlay /\ handleInputChange(newValue, collapsed)
        /\ quiet' = IF effectRan THEN 0 ELSE quiet
        /\ UNCHANGED <<showOverlay, clipboard, service, probe>>

\* time passes while the timer is pending
Tick ==
    \E d \in Elapses :
        /\ debounceTimeoutRef # null
        /\ quiet < debounceDelay
        /\ quiet' = IF quiet + d > debounceDelay THEN debounceDelay ELSE quiet + d
        /\ UNCHANGED <<overlayVars, service, probe>>

\* the runtime runs the callback once the delay has passed
timerDue == quiet >= debounceDelay

TimedDebounceFire ==
    /\ Len(attempts) < MaxCalls
    /\ showOverlay
    /\ timerDue
    /\ debounceFire
    /\ UNCHANGED <<showOverlay, clipboard, service, quiet, probe>>

TimedStatsReturn ==
    \E a \in Ids :
        showOverlay /\ statsReturn(a, FALSE)
        /\ UNCHANGED <<showOverlay, clipboard, service, quiet, probe>>

TimedLLMReturn ==
    \E a \in Ids, reply \in ConfirmReplies :
        showOverlay /\ llmReturn(a, reply)
        /\ UNCHANGED <<showOverlay, clipboard, service, quiet, probe>>

NextDebounce ==
    \/ TimedInitialize
    \/ TimedInputChange
    \/ Tick
    \/ TimedDebounceFire
    \/ TimedStatsReturn
    \/ TimedLLMReturn

SpecDebounce == Init /\ [][NextDebounce]_vars

(***************************************************************************)
(* The format catalog on its own: rendering and detection                  *)
(***************************************************************************)

\* epochs handed to formatDiscordTimestamp
ProbeEpochs == {-1, 0, 1, 5, 1700000000, 2147483646, MaxInt32}

\* format indexes handed to formatDiscordTimestamp
ProbeIndexes == {Whole(k) : k \in -1..7} \cup {AndAHalf(2)}

ProbeDigits ==
    {<<>>, <<"0">>, <<"1">>, <<"0", "0", "7">>,
     <<"2", "1", "4", "7", "4", "8", "3", "6", "4", "6">>,
     <<"2", "1", "4", "7", "4", "8", "3", "6", "4", "7">>,
     <<"2", "1", "4", "7", "4", "8", "3", "6", "4", "8">>,
     <<"9", "9", "9", "9", "9", "9", "9", "9", "9", "9", "9">>,
     <<"-", "5">>, <<"1", "x">>}

ProbeCodes ==
    {<<":", c>> : c \in CodeLetters} \cup {<<":", "x">>, <<":">>, <<"d">>, <<":", "d", "d">>}

ProbeAffixes == {<<>>, <<" ">>, <<"a", "t", " ">>, <<"<", "t", ":">>, <<"<", "t", ":", "9", ">">>}

\* texts handed to parseExistingTimestamp
ProbeTexts ==
    {prefix \o <<"<", "t", ":">> \o digits \o code \o <<">">> \o suffix :
        prefix \in ProbeAffixes, digits \in ProbeDigits,
        code \in ProbeCodes, suffix \in {<<>>, <<" ">>}}
    \cup {<<>>, TextBlank, TextFivePm, <<"<", "t", ":", "5", ":", "d">>, <<"t", ":", "5", ":", "d", ">">>}

InitCatalog ==
    /\ InitOverlay
    /\ formatStats = defaultStats
    /\ apiKey = FALSE
    /\ probe = ProbeIdle
    /\ service = ServiceIdle(FALSE)
    /\ quiet = 0

Render ==
    \E e \in ProbeEpochs, formatIndex \in ProbeIndexes :
        LET rendered == formatDiscordTimestamp(e, formatIndex) IN
        /\ probe' = [op |-> "render", epoch |-> e, formatIndex |-> formatIndex,
                     rendered |-> rendered,
                     existing |-> IF rendered # null
                                  THEN parseExistingTimestamp(Val(rendered)) ELSE null]
        /\ UNCHANGED <<overlayVars, service, quiet>>

Detect ==
    \E text \in ProbeTexts :
        /\ probe' = [op |-> "detect", text |-> text,
                     existing |-> parseExistingTimestamp(text)]
        /\ UNCHANGED <<overlayVars, service, quiet>>

\* largest count of a histogram handed to getMostUsedFormatIndex
MaxCount == 2

\* histograms handed to getMostUsedFormatIndex: every count for every code,
\* and histograms that lack codes, the empty one among them
ProbeHistograms ==
    [CodeLetters -> 0..MaxCount]
    \cup UNION {[codes -> 1..MaxCount] : codes \in {{}, {"R"}, {"t", "F"}, {"D", "T", "R"}}}

NextCatalog == Render \/ Detect

SpecCatalog == InitCatalog /\ [][NextCatalog]_vars

(***************************************************************************)
(* The usage statistics on their own: the most used format of a histogram  *)
(***************************************************************************)

InitStats ==
    /\ InitOverlay
    /\ formatStats = defaultStats
    /\ apiKey = FALSE
    /\ service = ServiceIdle(FALSE)
    /\ quiet = 0
    /\ probe \in {[op |-> "histogram", stats |-> stats] : stats \in ProbeHistograms}

MostUsed ==
    /\ probe.op = "histogram"
    /\ probe' = [op |-> "mostUsed", stats |-> probe.stats,
                 index |-> getMostUsedFormatIndex(probe.stats)]
    /\ UNCHANGED <<overlayVars, service, quiet>>

NextStats == MostUsed

SpecStats == InitStats /\ [][NextStats]_vars

(***************************************************************************)
(* The same text resolved more than once: each resolution that runs to its *)
(* end is recorded with what it consumed and what it displayed             *)
(***************************************************************************)

\* texts typed in such a run
TwiceTexts == {TextFivePm, TextAsdf}

\* what the normalizer may answer in such a run
TwiceReplies ==
    {BaseReply,
     [BaseReply EXCEPT !.normalizedText = TextUnparseable],
     [BaseReply EXCEPT !.kind = "provider_error"]}

\* no resolution has ended yet
NoRuns == [op |-> "resolved", runs |-> <<>>, opened |-> "not yet"]

\* the record of attempt a having run resolve: the text, the histogram and
\* the reply it consumed, the epoch and the index on display afterwards
resolved(a, stats, reply) ==
    [probe EXCEPT !.runs =
        Append(@, [text |-> attempts[a].text, stats |-> stats, reply |-> reply,
                   epoch |-> epoch', selectedIndex |-> selectedIndex',
                   opened |-> probe.opened])]

\* how readText of the mount effect ended
readOutcome(clipboardText) ==
    IF clipboardText = null THEN "failed"
    ELSE IF Val(clipboardText) = <<>> THEN "empty" ELSE "text"

TwiceInitialize ==
    \E clipboardText \in {null, Some(<<>>), Some(TextFivePm)} :
        /\ showOverlay
        /\ initialize(clipboardText)
        /\ probe' = [probe EXCEPT !.opened = readOutcome(clipboardText)]
        /\ UNCHANGED <<showOverlay, clipboard, service, quiet>>

TwiceInputChange ==
    \E newValue \in TwiceTexts, collapsed \in BOOLEAN :
        showOverlay /\ handleInputChange(newValue, collapsed)
        /\ UNCHANGED <<showOverlay, clipboard, service, quiet, probe>>

TwiceDebounceFire ==
    showOverlay /\ debounceFire /\ UNCHANGED <<showOverlay, clipboard, service, quiet, probe>>

TwiceStatsReturn ==
    \E a \in Ids, readFails \in BOOLEAN :
        /\ showOverlay
        /\ statsReturn(a, readFails)
        /\ probe' = IF ~attempts[a].aborted /\ ~apiKey
                    THEN resolved(a, getFormatStats(readFails), NoReply)
                    ELSE probe
        /\ UNCHANGED <<showOverlay, clipboard, service, quiet>>

TwiceLLMReturn ==
    \E a \in Ids, reply \in TwiceReplies :
        /\ showOverlay
        /\ llmReturn(a, reply)
        /\ probe' = IF ~attempts[a].aborted
                    THEN resolved(a, attempts[a].stats, reply)
                    ELSE probe
        /\ UNCHANGED <<showOverlay, clipboard, service, quiet>>

\* the pointer enters a row between two resolutions
TwiceRowMouseEnter ==
    \E index \in {Len(formats) - 1} :
        showOverlay /\ handleRowMouseEnter(index) /\ UNCHANGED <<service, quiet, probe>>

InitTwice ==
    /\ InitOverlay
    /\ probe = NoRuns
    /\ service = ServiceIdle(FALSE)
    /\ quiet = 0

NextTwice ==
    \/ TwiceInitialize
    \/ TwiceInputChange
    \/ TwiceDebounceFire
    \/ TwiceStatsReturn
    \/ TwiceLLMReturn
    \/ TwiceRowMouseEnter

SpecTwice == InitTwice /\ [][NextTwice]_vars

(***************************************************************************)
(* The deterministic parser on bare weekday names, with its reference      *)
(* instant: chrono.parseDate(text, new Date(), { forwardDate })            *)
(***************************************************************************)

\* the weekday names, in the order of Date.prototype.getDay
WeekdayNames ==
    << <<"s", "u", "n", "d", "a", "y">>,
       <<"m", "o", "n", "d", "a", "y">>,
       <<"t", "u", "e", "s", "d", "a", "y">>,
       <<"w", "e", "d", "n", "e", "s", "d", "a", "y">>,
       <<"t", "h", "u", "r", "s", "d", "a", "y">>,
       <<"f", "r", "i", "d", "a", "y">>,
       <<"s", "a", "t", "u", "r", "d", "a", "y">> >>

\* getDay of the weekday a text names, -1 when it names none
weekdayOf(text) ==
    IF \E d \in 1..Len(WeekdayNames) : WeekdayNames[d] = text
    THEN (CHOOSE d \in 1..Len(WeekdayNames) : WeekdayNames[d] = text) - 1
    ELSE -1

\* getDay of an instant in seconds (UTC): 1970-01-01 was a Thursday
getDay(instant) == ((instant \div 86400) + 4) % 7

\* chrono on a weekday name: the closest such day at 12:00; with forwardDate
\* a result before the reference moves to that weekday of the reference's
\* week, or of the week after when the reference's weekday is not earlier
chronoWeekday(weekday, reference, forwardDate) ==
    LET refDay == getDay(reference)
        forward == (weekday - refDay + 7) % 7
        backward == forward - 7
        closest == IF forward < -backward THEN forward ELSE backward
        midnight == (reference \div 86400) * 86400
        start == midnight + closest * 86400 + 12 * 3600
        sunday == midnight - refDay * 86400
    IN  IF forwardDate /\ reference > start
        THEN sunday + (IF refDay >= weekday THEN weekday + 7 ELSE weekday) * 86400
                    + 12 * 3600
        ELSE start

\* chrono.parseDate(text, reference, option), in seconds
parseDate(text, reference, option) ==
    IF weekdayOf(text) >= 0
    THEN Some(chronoWeekday(weekdayOf(text), reference, option.forwardDate))
    ELSE chronoParseDate(text)

\* parseFallback that asks chrono without the forward preference
parseFallbackAt_noForward(text, now) == parseDate(text, now, [forwardDate |-> FALSE])

\* parseFallback when `new Date()` is now
parseFallbackAt(text, now) == parseDate(text, now, [forwardDate |-> TRUE])

\* the strategies of parseMultiple from position k on: the first result
RECURSIVE firstResult(_, _)
firstResult(strategies, k) ==
    IF k > Len(strategies) THEN null
    ELSE IF strategies[k] # null THEN strategies[k]
         ELSE firstResult(strategies, k + 1)

\* parseMultiple when `new Date()` is now
parseMultipleAt(text, now) ==
    firstResult(<<parseFallbackAt(text, now),
                  parseDate(text, now, [forwardDate |-> FALSE]),
                  parseFallbackAt(trim(text), now)>>, 1)

\* texts handed to the parser in such a run
ForwardTexts == {WeekdayNames[d] : d \in 1..Len(WeekdayNames)} \cup {TextAsdf}

\* reference instants: each day of the week of Sunday 2025-01-12, before,
\* at and after noon
ReferenceInstants ==
    {1736640000 + d * 86400 + h * 3600 : d \in 0..6, h \in {0, 12, 13}}

InitForward ==
    /\ InitOverlay
    /\ formatStats = defaultStats
    /\ apiKey = FALSE
    /\ service = ServiceIdle(FALSE)
    /\ quiet = 0
    /\ probe \in {[op |-> "text", text |-> text, now |-> now] :
                    text \in ForwardTexts, now \in ReferenceInstants}

ParseFallback ==
    /\ probe.op = "text"
    /\ probe' = [op |-> "parseFallback", text |-> probe.text, now |-> probe.now,
                 result |-> parseFallbackAt(probe.text, probe.now)]
    /\ UNCHANGED <<overlayVars, service, quiet>>

ParseMultiple ==
    /\ probe.op = "text"
    /\ probe' = [op |-> "parseMultiple", text |-> probe.text, now |-> probe.now,
                 result |-> parseMultipleAt(probe.text, probe.now)]
    /\ UNCHANGED <<overlayVars, service, quiet>>

NextForward == ParseFallback \/ ParseMultiple

SpecForward == InitForward /\ [][NextForward]_vars

(***************************************************************************)
(* The HTTP service on its own: requests of every kind, each step recorded *)
(* with the request, the response and what the handler consumed            *)
(***************************************************************************)

\* most requests of one address counted in one time window of such a run
MaxArrivals == 2

\* a text of 513 characters
TextLong == [i \in 1..513 |-> "a"]

\* the x-api-key and the x-api-version header: missing, wrong, right
Keys == {null, Some("WRONG"), Some(staticApiKey)}

Versions == {null, Some("2"), Some(API_VERSION)}

\* the requests of such a run: POST /parse with both headers right and
\* every kind of body, POST /parse with every kind of headers, and the two
\* GET routes
ServiceRequests ==
    {Request("/parse", "10.0.0.1", Some(staticApiKey), Some(API_VERSION), text, tz) :
        text \in {null, Some(<<>>), Some(TextBlank), Some(TextLong),
                  Some(TextFivePm), Some(TextAsdf), Some(TextEpochZero)},
        tz \in {null, Some("UTC")}}
    \cup {Request("/parse", "10.0.0.1", key, version, text, Some("UTC")) :
            key \in Keys, version \in Versions, text \in {Some(<<>>), Some(TextFivePm)}}
    \cup {Request(url, "10.0.0.2", key, Some(API_VERSION), null, null) :
            url \in {"/health", "/stats"}, key \in Keys}

\* how the insert of logUsage goes: well, db.prepare throws, stmt.run throws
Failures == {"none", "prepare", "run"}

ServiceReceive ==
    \E request \in ServiceRequests :
        /\ service.hits[request.ip] < MaxArrivals
        /\ receive(request, "none")
        /\ probe' = [op |-> "request", request |-> request,
                     response |-> response(request)]
        /\ UNCHANGED <<overlayVars, quiet>>

ServiceRespond ==
    \E r \in 1..Len(service.requests), reply \in CeilingReplies, failure \in Failures :
        /\ parseTimeReturn(r, reply, failure)
        /\ probe' = [op |-> "response", text |-> service.requests[r].text,
                     reply |-> reply, failure |-> failure,
                     response |-> service'.requests[r].response]
        /\ UNCHANGED <<overlayVars, quiet>>

ServiceExpire ==
    \E ip \in Ips :
        expire(ip) /\ probe' = [op |-> "expire"] /\ UNCHANGED <<overlayVars, quiet>>

InitService ==
    /\ InitOverlay
    /\ formatStats = defaultStats
    /\ apiKey = FALSE
    /\ probe = ProbeIdle
    /\ service = ServiceIdle(TRUE)
    /\ quiet = 0

NextService ==
    \/ ServiceReceive
    \/ ServiceRespond
    \/ ServiceExpire

SpecService == InitService /\ [][NextService]_vars

(***************************************************************************)
(* The request budget: clients that share an address or a key, each        *)
(* request recorded with the number of requests made before it             *)
(***************************************************************************)

\* most requests of one address beyond the budget in one time window
MaxExceeding == 1

\* who sends requests: two clients behind one address, one with the right
\* key and one with another, and a client with the right key elsewhere
RateClients ==
    {[ip |-> "10.0.0.1", apiKey |-> Some(staticApiKey)],
     [ip |-> "10.0.0.1", apiKey |-> Some("WRONG")],
     [ip |-> "10.0.0.2", apiKey |-> Some(staticApiKey)]}

\* the sum of f over the set S
RECURSIVE sumOver(_, _)
sumOver(f, S) ==
    IF S = {} THEN 0
    ELSE LET c == CHOOSE c \in S : TRUE IN f[c] + sumOver(f, S \ {c})

\* of the requests counted in made, those sent with the key
madeWith(made, key) == sumOver(made, {c \in RateClients : c.apiKey = key})

RateReceive ==
    \E c \in RateClients :
        LET request == Request("/stats", c.ip, c.apiKey, Some(API_VERSION), null, null) IN
        /\ service.hits[c.ip] < max + MaxExceeding
        /\ receive(request, "none")
        /\ probe' = [op |-> "request", request |-> request,
                     response |-> response(request),
                     before |-> madeWith(probe.made, c.apiKey),
                     made |-> [probe.made EXCEPT ![c] = @ + 1]]
        /\ UNCHANGED <<overlayVars, quiet>>

RateExpire ==
    \E ip \in Ips :
        /\ expire(ip)
        /\ probe' = [op |-> "expire",
                     made |-> [c \in RateClients |->
                                  IF c.ip = ip THEN 0 ELSE probe.made[c]]]
        /\ UNCHANGED <<overlayVars, quiet>>

InitRate ==
    /\ InitOverlay
    /\ formatStats = defaultStats
    /\ apiKey = FALSE
    /\ probe = [op |-> "none", made |-> [c \in RateClients |-> 0]]
    /\ service = ServiceIdle(TRUE)
    /\ quiet = 0

NextRate == RateReceive \/ RateExpire

SpecRate == InitRate /\ [][NextRate]_vars

(***************************************************************************)
(* The service and its usage store: the health probe and the shutdown      *)
(***************************************************************************)

\* DatabaseManager.getInfo: the tables of the store; every failure of a
\* query is caught and answered with no tables
getInfo(queryFails) ==
    IF queryFails THEN [tables |-> <<>>] ELSE [tables |-> <<"usage">>]

\* DatabaseManager.getUsageStats on a table of usageLog rows, all of them
\* younger than 24 hours; every failure of a query is caught and answered
\* with zeros
getUsageStats(usageLog, queryFails) ==
    IF queryFails THEN [total |-> 0, last24h |-> 0]
    ELSE [total |-> usageLog, last24h |-> usageLog]

\* the handler of GET /health
healthHandler(usageLog, queryFails) ==
    LET dbInfo == getInfo(queryFails)
        usageStats == getUsageStats(usageLog, queryFails)
    IN  [status |-> 200,
         body |-> [status |-> "healthy", version |-> API_VERSION,
                   database |-> [connected |-> TRUE,
                                 tables |-> dbInfo.tables,
                                 totalRequests |-> usageStats.total,
                                 last24h |-> usageStats.last24h]]]

\* gracefulShutdown up to its await: db.close(), then server.close() stops
\* the server from accepting requests and waits for those in flight
gracefulShutdown ==
    /\ ~service.closed
    /\ service' = [service EXCEPT !.closed = TRUE]

\* how the insert of logUsage goes: db.prepare throws on a connection that
\* has been closed
insertFailure == IF service.closed THEN "prepare" ELSE "none"

\* requests of such a run: POST /parse with both headers right, and the
\* health probe without headers while the queries of the store work or fail
LifecycleRequests ==
    {[request |-> Request("/parse", "10.0.0.1", Some(staticApiKey), Some(API_VERSION),
                          Some(text), Some("UTC")),
      queryFails |-> FALSE] : text \in {TextFivePm, TextAsdf}}
    \cup {[request |-> Request("/health", "10.0.0.2", null, null, null, null),
           queryFails |-> queryFails] : queryFails \in BOOLEAN}

\* normalizer outcomes of such a run
LifecycleReplies == {BaseReply, [BaseReply EXCEPT !.kind = "provider_error"]}

LifecycleReceive ==
    \E arrival \in LifecycleRequests :
        LET request == arrival.request IN
        /\ ~service.closed
        /\ service.hits[request.ip] < MaxArrivals
        /\ receive(request, insertFailure)
        /\ probe' = [op |-> "request", request |-> request,
                     queryFails |-> arrival.queryFails,
                     response |->
                        IF request.url = "/health" /\ rejection(request) = null
                        THEN Some(healthHandler(service.usageLog, arrival.queryFails))
                        ELSE response(request)]
        /\ UNCHANGED <<overlayVars, quiet>>

LifecycleRespond ==
    \E r \in 1..Len(service.requests), reply \in LifecycleReplies :
        /\ parseTimeReturn(r, reply, insertFailure)
        /\ probe' = [op |-> "response", text |-> service.requests[r].text,
                     reply |-> reply, closed |-> service.closed,
                     response |-> service'.requests[r].response]
        /\ UNCHANGED <<overlayVars, quiet>>

GracefulShutdown ==
    /\ gracefulShutdown
    /\ probe' = [op |-> "shutdown",
                 inFlight |-> {r \in 1..Len(service.requests) :
                                  service.requests[r].pc = "parseTime"}]
    /\ UNCHANGED <<overlayVars, quiet>>

LifecycleExpire ==
    \E ip \in Ips :
        /\ ~service.closed
        /\ expire(ip) /\ probe' = [op |-> "expire"] /\ UNCHANGED <<overlayVars, quiet>>

NextLifecycle ==
    \/ LifecycleReceive
    \/ LifecycleRespond
    \/ GracefulShutdown
    \/ LifecycleExpire

SpecLifecycle == InitService /\ [][NextLifecycle]_vars

(***************************************************************************)
(* Keyboard navigation, each key recorded with the index it found           *)
(***************************************************************************)

\* normalizer outcomes of such a run: an index at the end of the catalog,
\* and one between two entries
NavigateReplies ==
    {BaseReply, [BaseReply EXCEPT !.suggestedFormatIndex = AndAHalf(2)]}

NavigateInitialize ==
    \E clipboardText \in {null, Some(TextFivePm), Some(TextMarkup)} :
        showOverlay /\ initialize(clipboardText) /\ probe' = ProbeIdle
        /\ UNCHANGED <<showOverlay, clipboard, service, quiet>>

NavigateDebounceFire ==
    /\ Len(attempts) < MaxCalls
    /\ showOverlay
    /\ debounceFire
    /\ probe' = ProbeIdle
    /\ UNCHANGED <<showOverlay, clipboard, service, quiet>>

NavigateStatsReturn ==
    \E a \in Ids :
        showOverlay /\ statsReturn(a, FALSE) /\ probe' = ProbeIdle
        /\ UNCHANGED <<showOverlay, clipboard, service, quiet>>

NavigateLLMReturn ==
    \E a \in Ids, reply \in NavigateReplies :
        showOverlay /\ llmReturn(a, reply) /\ probe' = ProbeIdle
        /\ UNCHANGED <<showOverlay, clipboard, service, quiet>>

NavigateKeyDown ==
    \E back \in BOOLEAN :
        /\ showOverlay
        /\ handleKeyDown(back)
        /\ probe' = [op |-> "key", back |-> back, from |-> selectedIndex]
        /\ UNCHANGED <<service, quiet>>

NextNavigate ==
    \/ NavigateInitialize
    \/ NavigateDebounceFire
    \/ NavigateStatsReturn
    \/ NavigateLLMReturn
    \/ NavigateKeyDown

SpecNavigate == Init /\ [][NextNavigate]_vars

(***************************************************************************)
(* Typing into the textarea, each keystroke recorded with the selection it  *)
(* found                                                                   *)
(***************************************************************************)

\* longest text typed without the clipboard in such a run
MaxTyped == 2

\* characters typed
TypedChars == {"x", "5"}

\* value of the textarea after c is typed over the selection from..to of
\* text (from = to: a cursor between two characters)
typedOver(text, from, to, c) ==
    SubSeq(text, 1, from) \o <<c>> \o SubSeq(text, to + 1, Len(text))

TypingInitialize ==
    \E clipboardText \in {null, Some(TextAsdf), Some(TextFivePm)} :
        showOverlay /\ initialize(clipboardText) /\ probe' = ProbeIdle
        /\ UNCHANGED <<showOverlay, clipboard, service, quiet>>

\* a character is typed at a cursor position, or over the whole text the
\* mount effect selected; the selection is a single position afterwards
TypeCharacter ==
    \E c \in TypedChars, from \in 0..Len(inputText), to \in 0..Len(inputText) :
        /\ from = to \/ (from = 0 /\ to = Len(inputText))
        /\ isClipboardText \/ Len(inputText) - (to - from) < MaxTyped
        /\ showOverlay
        /\ handleInputChange(typedOver(inputText, from, to, c), TRUE)
        /\ probe' = [op |-> "type", char |-> c, from |-> from, to |-> to]
        /\ UNCHANGED <<showOverlay, clipboard, service, quiet>>

NextTyping == TypingInitialize \/ TypeCharacter

SpecTyping == Init /\ [][NextTyping]_vars

(***************************************************************************)
(* Properties                                                              *)
(***************************************************************************)

\* attempt a takes its last step in this transition
Ends(a) == InFlight(a) /\ attempts'[a].pc = "done"

\* C1: an attempt that was superseded (its controller aborted) before it
\* completed never writes the displayed epoch, selected index, confidence,
\* error or info, whenever its replies arrive.
C1_SupersededNeverWrites ==
    [][\A a \in Ids : (attempts[a].aborted /\ Ends(a)) => display' = display]_vars

\* the normalizer answered an aborted attempt after a younger attempt had
\* already resolved and shown its result
C1_Witness ==
    \E a \in Ids :
        /\ attempts[a].aborted /\ attempts[a].late
        /\ \E b \in Ids : b > a /\ b = abortControllerRef /\ ~InFlight(b)
                          /\ ~attempts[b].aborted
        /\ epoch # null

\* the attempts that may still write: in flight and not aborted
Live == {a \in Ids : InFlight(a) /\ ~attempts[a].aborted}

\* C2: at most one resolution attempt is live, counting the one that waits
\* in the debounce timer and those in flight and not aborted.
C2_AtMostOneLive ==
    Cardinality(Live) + (IF debounceTimeoutRef # null THEN 1 ELSE 0) <= 1

\* a superseded attempt is still in flight while its successor is live
C2_Witness ==
    /\ \E a \in Ids : InFlight(a) /\ attempts[a].aborted
    /\ Cardinality(Live) = 1

\* the last step was the end of an un-aborted attempt that had a reply
Answered == probe.op = "llmReturn" /\ ~probe.aborted

\* C3: when the normalizer returns a valid result whose normalizedText the
\* deterministic parser cannot parse, the raw text is parsed: the attempt
\* ends Unresolved only if that parse fails too, and otherwise resolves with
\* the raw-text epoch and the suggested format index.
C3_RawTextRetry ==
    (/\ Answered
     /\ parseWithLLM(probe.reply) # null
     /\ parseFallback(probe.reply.normalizedText) = null)
    => IF parseFallback(probe.text) = null
       THEN method = "unresolved" /\ epoch = null
       ELSE /\ method = "llm-fallback-raw"
            /\ epoch = parseFallback(probe.text)
            /\ selectedIndex = probe.reply.suggestedFormatIndex

\* a reply that breaks a rule of the validation: a missing or mistyped
\* field, an empty normalizedText, an index outside 0..6, a confidence
\* outside [0, 1]
ViolatesValidation(r) ==
    /\ r.kind = "json"
    /\ \/ r.types # AllTyped
       \/ r.normalizedText = <<>>
       \/ r.suggestedFormatIndex < Whole(0)
       \/ r.suggestedFormatIndex > Whole(6)
       \/ r.confidence < 0
       \/ r.confidence > 100

\* the last step ended an un-aborted attempt that had no normalizer result
NoResult ==
    \/ probe.op = "statsReturn" /\ ~probe.aborted /\ probe.reply.kind = "not_configured"
    \/ Answered /\ probe.reply.kind \in {"timeout", "provider_error", "no_content", "bad_json"}
    \/ Answered /\ ViolatesValidation(probe.reply)

\* C4: without a normalizer result the raw text is parsed: on success the
\* overlay shows that epoch, the most used index of the histogram read for
\* the attempt and confidence 0.7; on failure it ends Unresolved, no epoch.
C4_DeterministicFallback ==
    NoResult
    => IF parseFallback(probe.text) = null
       THEN method = "unresolved" /\ epoch = null
       ELSE /\ method = "deterministic-fallback"
            /\ epoch = parseFallback(probe.text)
            /\ selectedIndex = Whole(getMostUsedFormatIndex(probe.stats))
            /\ confidence = 70

CatalogIndex(code) == CHOOSE k \in 0..6 : formats[k + 1].code = code

\* C6: an input whose trimmed text holds accepted markup is resolved in the
\* step of the input change, with the epoch of the markup and the catalog
\* index of its code; no debounce timer is started, and no attempt ever
\* calls the normalizer or the parser for such an input.
C6_MarkupShortCircuit ==
    [][/\ inputText' # inputText
            => LET existing == parseExistingTimestamp(trim(inputText')) IN
               existing # null
               => /\ epoch' = Some(Val(existing).epoch)
                  /\ selectedIndex' = Whole(CatalogIndex(Val(existing).formatCode))
                  /\ debounceTimeoutRef' = null
                  /\ \A a \in Ids : InFlight(a) => attempts'[a].aborted
       /\ \A a \in Ids :
            (InFlight(a) /\ ~attempts[a].aborted /\ attempts'[a].pc # attempts[a].pc)
            => parseExistingTimestamp(attempts[a].text) = null
      ]_vars

\* a timestamp was pasted while an earlier attempt was in flight
C6_Witness ==
    /\ inputText = TextMarkup
    /\ method = "existing-markup"
    /\ epoch = Some(1700000000)
    /\ selectedIndex = Whole(1)
    /\ debounceTimeoutRef = null
    /\ \E a \in Ids : InFlight(a) /\ attempts[a].aborted

\* C7: whenever the displayed result comes from existing markup its
\* confidence is 1.0.
C7_MarkupConfidence == method = "existing-markup" => confidence = 100

\* C8: detection of a rendered timestamp returns the epoch and the code it
\* was rendered from, for every epoch and every catalog index 0..6.
C8_RoundTrip ==
    (probe.op = "render" /\ probe.formatIndex \in {Whole(k) : k \in 0..6})
    => /\ probe.rendered # null
       /\ probe.existing = Some([epoch |-> probe.epoch,
                                 formatCode |-> formats[(probe.formatIndex \div 2) + 1].code])

\* digits is a decimal integer in 1..2147483647
InInt32Range(digits) ==
    LET n == parseInt(digits) IN ~n.big /\ n.value >= 1 /\ n.value <= MaxInt32

\* the text contains <t:DIGITS:c> with c a catalog code and DIGITS in range
ContainsTimestamp(text) ==
    \E p \in 1..Len(text) :
        /\ matchesAt(text, p)
        /\ InInt32Range(SubSeq(text, p + 3, p + 3 + digitRun(text, p + 3) - 1))

\* C9: detection returns an epoch and a code exactly when the text contains
\* <t:DIGITS:c> with c one of the seven codes and DIGITS in 1..2147483647.
C9_DetectExactly ==
    probe.op = "detect" => (probe.existing # null <=> ContainsTimestamp(probe.text))

\* C10: the selected format index is an integer in 0..6.
C10_IndexInCatalog == selectedIndex \in {Whole(k) : k \in 0..6}

\* C11: every string the copy action puts on the clipboard is the catalog
\* rendering of the displayed result: <t:E:c> with E the displayed epoch in
\* decimal and c the code letter of the selected index.
C11_CopyIsRendering ==
    [][clipboard' # clipboard
        => /\ epoch # null
           /\ clipboard' = formatDiscordTimestamp(Val(epoch), selectedIndex)
           /\ \E c \in CodeLetters :
                /\ clipboard' = Some(<<"<", "t", ":">> \o toString(Val(epoch))
                                      \o <<":", c>> \o <<">">>)
                /\ hasFormat(selectedIndex)
                /\ c = formatCodes[(selectedIndex \div 2) + 1]
      ]_vars

\* a pasted timestamp was copied in the long-time format after navigation
C11_Witness ==
    /\ ~showOverlay
    /\ epoch = Some(1700000000)
    /\ selectedIndex = Whole(3)
    /\ clipboard = Some(<<"<", "t", ":", "1", "7", "0", "0", "0", "0", "0",
                          "0", "0", "0", ":", "T", ">">>)

\* C12: on the llm-fallback-raw path (the normalized text does not parse,
\* the raw text does) the resulting confidence is strictly less than the
\* confidence the normalizer reported, for every reported confidence that
\* passes the validation, 0 included.
C12_RawPathPenalized ==
    (/\ Answered
     /\ parseWithLLM(probe.reply) # null
     /\ method = "llm-fallback-raw")
    => confidence < probe.reply.confidence

\* the overlay's call of the normalizer always ends: an attempt that waits
\* for parseWithLLM runs to its end
OverlayCallEnds ==
    \A a \in 1..(MaxCalls + 1) :
        (a \in Ids /\ attempts[a].pc = "parseWithLLM")
            ~> (a \in Ids /\ attempts[a].pc = "done")

\* the service's call of the normalizer always ends: a request that waits
\* for parseTime gets its response
ServiceCallEnds ==
    \A r \in 1..(MaxRequests + 1) :
        (r <= Len(service.requests) /\ service.requests[r].pc = "parseTime")
            ~> (r <= Len(service.requests) /\ service.requests[r].pc = "replied")

\* C13: a normalizer call that never answers does not block the pipeline:
\* past its ceiling the attempt goes on with the deterministic parse of the
\* raw text, in the overlay and in the HTTP service.
C13_CeilingNeverBlocks == OverlayCallEnds /\ ServiceCallEnds

\* C14: while the input is empty or only whitespace the overlay is Idle: no
\* debounce timer is pending, no attempt is live (every attempt in flight is
\* aborted), and no epoch, error, info hint or loading indicator is shown.
C14_EmptyInputIsIdle ==
    trim(inputText) = <<>>
    => /\ debounceTimeoutRef = null
       /\ Live = {}
       /\ epoch = null
       /\ error = null
       /\ info = null
       /\ ~loading

\* the input was blanked after a fallback result, while the attempt for a
\* later text was still in flight
C14_Witness ==
    /\ inputText = TextBlank
    /\ confidence = 70
    /\ \E a \in Ids : InFlight(a) /\ attempts[a].aborted
    /\ epoch = null /\ ~loading

\* C15: cancellation is silent: a step of an attempt that has been aborted
\* sets no error and no info message and leaves the loading indicator, which
\* belongs to the newer input, as it is.
C15_CancellationIsSilent ==
    [][\A a \in Ids :
          (attempts[a].aborted /\ InFlight(a) /\ attempts'[a] # attempts[a])
          => /\ error' = error
             /\ info' = info
             /\ loading' = loading
      ]_vars

\* an aborted attempt has ended while the overlay still shows the loading
\* indicator of the attempt that superseded it
C15_Witness ==
    /\ loading
    /\ error = null /\ info = null
    /\ \E a \in Ids : attempts[a].aborted /\ ~InFlight(a)
    /\ \E b \in Ids : b = abortControllerRef /\ InFlight(b) /\ ~attempts[b].aborted

\* C16: rapid edits are coalesced: an attempt starts, and the normalizer is
\* called, only for the text the input has held unchanged for the whole
\* debounce delay; of a burst of edits each within the delay of the previous
\* one, no text but the last is ever sent.
C16_EditsCoalesced ==
    [][/\ Len(attempts') > Len(attempts)
            => /\ quiet >= debounceDelay
               /\ attempts'[Len(attempts')].text = trim(inputText)
       /\ \A a \in Ids :
            (attempts[a].pc # "parseWithLLM" /\ attempts'[a].pc = "parseWithLLM")
            => attempts[a].text = trim(inputText)
      ]_vars

\* the normalizer is being called for the text typed last, which stayed
\* 300 ms, after an edit that came 150 ms after the clipboard text
C16_Witness ==
    /\ inputText = TextAsdf
    /\ initialized
    /\ quiet = debounceDelay
    /\ \E a \in Ids : attempts[a].pc = "parseWithLLM" /\ attempts[a].text = TextAsdf
                      /\ ~attempts[a].aborted

\* the histogram after one more use of the format of index
Incremented(stats, index) ==
    [c \in DOMAIN stats |->
        IF c = formatCodes[(index \div 2) + 1] THEN stats[c] + 1 ELSE stats[c]]

\* C17: the usage histogram changes only in the copy action, and then by
\* exactly one on the counter of the selected format's code; a copy whose
\* write to the store succeeds makes that increment; input changes,
\* resolution steps, cancellations and navigation leave every counter as it
\* is.
C17_OnlyCopyCounts ==
    [][/\ formatStats' # formatStats
            => /\ probe'.op = "copy"
               /\ clipboard' = Some(copied(Val(epoch), selectedIndex))
               /\ hasFormat(selectedIndex)
               /\ formatStats' = Incremented(formatStats, selectedIndex)
       /\ (probe'.op = "copy" /\ clipboard' # clipboard /\ ~probe'.storeFails)
            => formatStats' = Incremented(formatStats, selectedIndex)
      ]_vars

\* a copy in the relative format, the first use of it, closed the overlay
C17_Witness ==
    /\ ~showOverlay
    /\ clipboard # null
    /\ selectedIndex = Whole(6)
    /\ formatStats = [defaultStats EXCEPT !["R"] = 1]

\* C18: mostUsedIndex returns the lowest catalog index whose count is the
\* largest count of the histogram (a code the histogram lacks counts 0), and
\* so 0 for an all-zero or empty histogram.
C18_MostUsedLowestMax ==
    probe.op = "mostUsed"
    => LET count(k) == countOf(probe.stats, formatCodes[k + 1]) IN
       /\ probe.index \in 0..6
       /\ \A k \in 0..6 : count(k) <= count(probe.index)
       /\ \A k \in 0..6 : k < probe.index => count(k) < count(probe.index)
       /\ (\A k \in 0..6 : count(k) = 0) => probe.index = 0

\* short time and long date/time tie at the top: short time, listed first,
\* is returned
C18_Witness ==
    /\ probe.op = "mostUsed"
    /\ probe.stats = [defaultStats EXCEPT !["t"] = 2, !["F"] = 2, !["R"] = 1]
    /\ probe.index = 2

\* C19: storage failures of the usage tracker are absorbed.  A failed read
\* gives the attempt what a read of the all-zero histogram gives: the same
\* outcome (resolved exactly when the raw text parses), index 0 on the
\* fallback path, and no message but the guidance of Unresolved.  A failed
\* increment leaves the counters alone, shows no error and does not keep the
\* copy from writing the clipboard and closing the overlay.
C19_StorageFailuresAbsorbed ==
    [][/\ \A a \in Ids :
            (/\ probe'.op = "statsReturn" /\ probe'.readFails
             /\ attempts[a].pc = "getFormatStats" /\ attempts'[a].pc # "getFormatStats"
             /\ ~attempts[a].aborted)
            => IF apiKey
               THEN /\ attempts'[a].stats = defaultStats
                    /\ display' = display
               ELSE LET e == parseFallback(attempts[a].text) IN
                    /\ (epoch' # null) <=> Truthy(e)
                    /\ Truthy(e) => /\ epoch' = e
                                    /\ selectedIndex' = Whole(getMostUsedFormatIndex(defaultStats))
                                    /\ confidence' = 70
                                    /\ error' = null
                    /\ error' \in {null, Some(ErrorFallback)}
                    /\ error' # null => ~Truthy(e) /\ ~attempts[a].isFromClipboard
       /\ (/\ probe'.op = "copy" /\ probe'.storeFails /\ ~probe'.writeFails
           /\ hasFormat(selectedIndex))
            => /\ clipboard' = Some(copied(Val(epoch), selectedIndex))
               /\ formatStats' = formatStats
               /\ error' = error
               /\ ~showOverlay'
      ]_vars

\* a copy whose increment failed has written the clipboard and closed the
\* overlay, and every counter is still 0
C19_Witness ==
    /\ probe.op = "copy" /\ probe.storeFails /\ ~probe.writeFails
    /\ ~showOverlay
    /\ clipboard # null
    /\ error = null
    /\ formatStats = defaultStats

\* C20: when an attempt ends Unresolved the guidance follows the provenance
\* of the input: for text loaded from the clipboard and not edited since,
\* the info hint and no error; for typed text, the error message and no
\* info hint.
C20_GuidanceByProvenance ==
    [][\A a \in Ids :
          (Ends(a) /\ ~attempts[a].aborted /\ method' = "unresolved")
          => IF isClipboardText
             THEN info' # null /\ error' = null
             ELSE error' # null /\ info' = null
      ]_vars

\* two recorded resolutions consumed the same text, histogram and reply
SameInputs(r1, r2) ==
    r1.text = r2.text /\ r1.stats = r2.stats /\ r1.reply = r2.reply

OpenedWithoutText == probe.opened \in {"failed", "empty"}

\* what a resolution of typed text displays: an epoch exactly when the
\* normalized text or the raw text parses to a non-zero instant
ResolvedNormally(run) ==
    LET result == IF run.reply = NoReply THEN null ELSE parseWithLLM(run.reply)
        viaNormalized == result # null /\ Truthy(parseFallback(Val(result).normalizedText))
    IN  /\ run.epoch # null <=> (viaNormalized \/ Truthy(parseFallback(run.text)))
        /\ (result = null /\ run.epoch # null) =>
               /\ run.epoch = parseFallback(run.text)
               /\ run.selectedIndex = Whole(getMostUsedFormatIndex(run.stats))

\* C22: a failed or empty clipboard read at the opening of the overlay is
\* not fatal: the step of the mount effect leaves the input, the epoch, the
\* messages and everything else on display as they were (Idle with empty
\* input when nothing was typed yet), and text typed afterwards is resolved
\* as usual.
C22_ClipboardFailureNotFatal ==
    [][/\ (~initialized /\ initialized' /\ OpenedWithoutText') =>
              UNCHANGED <<inputText, epoch, selectedIndex, loading, error, info,
                          confidence, isClipboardText, debounceTimeoutRef,
                          abortControllerRef, attempts, method, showOverlay>>
       /\ \A i \in DOMAIN probe'.runs :
              probe'.runs[i].opened \in {"failed", "empty"} =>
                  ResolvedNormally(probe'.runs[i])
      ]_vars

C22_Witness ==
    /\ probe.opened = "failed"
    /\ inputText = TextFivePm
    /\ \E i \in DOMAIN probe.runs :
           /\ probe.runs[i].opened = "failed"
           /\ probe.runs[i].text = TextFivePm
           /\ probe.runs[i].epoch # null

\* the parser has answered for a bare weekday name
WeekdayParsed ==
    probe.op \in {"parseFallback", "parseMultiple"} /\ weekdayOf(probe.text) >= 0

\* C23: forward-date bias: for a bare weekday name the parser returns an
\* instant of that weekday that is not before the reference instant and
\* less than a week after it: that weekday of the same week when it is
\* still to come, else the one of the next week.
C23_ForwardDateBias ==
    WeekdayParsed =>
        /\ probe.result # null
        /\ getDay(Val(probe.result)) = weekdayOf(probe.text)
        /\ Val(probe.result) >= probe.now
        /\ Val(probe.result) - 7 * 86400 < probe.now

\* Friday asked on a Friday afternoon: the Friday of the next week
C23_Witness ==
    /\ WeekdayParsed
    /\ probe.op = "parseFallback"
    /\ probe.text = WeekdayNames[6]
    /\ getDay(probe.now) = 5
    /\ probe.result = Some(probe.now + 7 * 86400 - 3600)

\* the x-api-key header of the request is missing or wrong
BadKey(request) == request.apiKey = null \/ Val(request.apiKey) # staticApiKey

\* the x-api-version header of the request is missing or wrong
BadVersion(request) ==
    request.apiVersion = null \/ Val(request.apiVersion) # API_VERSION

\* C24: POST /parse with a missing or wrong API-key header is answered
\* 401 unauthorized, with a right key and a missing or wrong API-version
\* header 400 bad_request, and in both cases the handler does not run: no
\* normalizer call, no deterministic parse, no row in the usage log.
C24_AuthBeforeParsing ==
    [][LET p == probe' IN
       (/\ p.op = "request"
        /\ p.request.url = "/parse"
        /\ BadKey(p.request) \/ BadVersion(p.request)) =>
           /\ p.response = Some(IF BadKey(p.request)
                                THEN [status |-> 401, error |-> "unauthorized"]
                                ELSE [status |-> 400, error |-> "bad_request"])
           /\ service'.requests = service.requests
           /\ service'.usageLog = service.usageLog
      ]_vars

\* the handler of POST /parse has ended and its normalizer call had failed
\* (provider error, empty or malformed reply, validation failure)
NormalizerFailed == probe.op = "response" /\ parseTime(probe.reply) = null

\* C25: in the HTTP service a normalizer failure is not fatal: the raw text
\* is parsed deterministically and, when that parse succeeds, the response
\* is 200 with confidence 0.7 and the fallback method; the failure alone
\* never makes the response a 5xx.
C25_NormalizerFailureNotFatal ==
    (NormalizerFailed /\ probe.failure = "none") =>
        /\ Val(probe.response).status < 500
        /\ parseFallback(probe.text) # null =>
               /\ Val(probe.response).status = 200
               /\ Val(probe.response).epoch = Val(parseFallback(probe.text))
               /\ Val(probe.response).confidence = 70
               /\ Val(probe.response).method = "fallback"

\* the body is one the claim wants rejected: text empty, only whitespace or
\* longer than 512 characters, or tz missing
BadBody(body) ==
    \/ body.text # null /\ (trim(Val(body.text)) = <<>> \/ Len(Val(body.text)) > 512)
    \/ body.tz = null

\* C26: POST /parse with both headers right answers 400 bad_request, and
\* its handler does not run (no normalizer call), whenever the text is
\* empty, only whitespace or longer than 512 characters, or tz is missing.
C26_BodyValidated ==
    [][LET p == probe' IN
       (/\ p.op = "request"
        /\ p.request.url = "/parse"
        /\ ~BadKey(p.request) /\ ~BadVersion(p.request)
        /\ BadBody(p.request.body)) =>
           /\ p.response = Some([status |-> 400, error |-> "bad_request"])
           /\ service'.requests = service.requests
      ]_vars

\* the machine-readable kind of an error status
errorKind(status) ==
    CASE status = 400 -> "bad_request"
      [] status = 401 -> "unauthorized"
      [] status = 429 -> "rate_limited"
      [] OTHER -> "server_error"

\* C27: every error response carries the error kind that matches its
\* status: bad_request for 400, unauthorized for 401, rate_limited for 429,
\* server_error for 500, the answer to an unparseable time expression and
\* to an exception in the handler included.
C27_ErrorKindMatchesStatus ==
    (/\ probe.op \in {"request", "response"}
     /\ probe.response # null
     /\ Val(probe.response).status >= 400) =>
        Val(probe.response).error = errorKind(Val(probe.response).status)

\* C28: a storage failure while logging never changes the response: a
\* request whose text was resolved gets 200 with its result, whether
\* preparing or running the insert fails or not.
C28_LoggingFailureInvisible ==
    probe.op = "response" =>
        LET answer == parseHandler(probe.text, parseTime(probe.reply)) IN
        answer.status = 200 => probe.response = Some(answer)

\* a request to POST /parse got its response in this step
ParseEnded(p) ==
    \/ p.op = "response"
    \/ p.op = "request" /\ p.request.url = "/parse" /\ p.response # null

\* rows added to the usage log in this step
rowsAdded == service'.usageLog - service.usageLog

C30_BudgetPerKey ==
    probe.op = "request" =>
        (probe.response = Some([status |-> 429, error |-> "rate_limited"])
            <=> probe.before >= max)

\* C31: GET /health reports the connectivity of the storage truthfully: its
\* database.connected is true exactly when the queries of the usage store
\* work, and is not true when they fail.
C31_HealthTruthful ==
    (/\ probe.op = "request"
     /\ probe.request.url = "/health"
     /\ probe.response # null
     /\ Val(probe.response).status = 200) =>
        (Val(probe.response).body.database.connected <=> ~probe.queryFails)

\* C39: during graceful shutdown the usage store is not closed while a
\* request can still be in flight: the store is closed only once no handler
\* waits for the normalizer, and every request accepted before the signal
\* gets the response it would get without a shutdown, its usage row logged.
C39_StoreOutlivesRequests ==
    [][LET p == probe' IN
       /\ p.op = "shutdown" => p.inFlight = {}
       /\ p.op = "response" =>
             LET answer == parseHandler(p.text, parseTime(p.reply)) IN
             /\ p.response = Some(answer)
             /\ answer.status = 200 => service'.usageLog = service.usageLog + 1
      ]_vars

\* the index of the catalog entry after (before, when back) entry k, the
\* first following the last
Neighbour(k, back) ==
    IF back THEN (IF k = 0 THEN 6 ELSE k - 1) ELSE (IF k = 6 THEN 0 ELSE k + 1)

\* C32: keyboard navigation cycles the catalog order: from an index in 0..6
\* a navigation key moves the selection by one, next from 6 goes to 0 and
\* previous from 0 goes to 6, so the index stays in 0..6 through any
\* sequence of navigation keys.
C32_NavigationCycles ==
    [][LET p == probe' IN
       (p.op = "key" /\ selectedIndex \in {Whole(k) : k \in 0..6}) =>
           /\ selectedIndex' = Whole(Neighbour(selectedIndex \div 2, p.back))
           /\ selectedIndex' \in {Whole(k) : k \in 0..6}
      ]_vars

\* the selection suggested by the normalizer, the last entry, has been moved
\* forward past the end of the catalog to the first entry
C32_Witness ==
    /\ probe.op = "key"
    /\ ~probe.back
    /\ probe.from = Whole(6)
    /\ selectedIndex = Whole(0)
    /\ method = "llm-normalized"

\* the non-empty texts the input holds in a run with the ceiling: a typed
\* text, or the character that replaced the clipboard text
HeldTexts ==
    {TextFivePm, TextAsdf} \cup {<<t[Len(t)]>> : t \in {TextFivePm, TextAsdf}}

\* the overlay shows a result
Resolved ==
    /\ method \in {"llm-normalized", "llm-fallback-raw", "deterministic-fallback"}
    /\ epoch # null

\* the overlay shows that the text could not be resolved
Unresolved ==
    /\ method = "unresolved"
    /\ epoch = null
    /\ error # null \/ info # null

\* the input holds text and its attempt is still to come or in flight
Awaited(text) ==
    /\ inputText = text
    /\ \/ debounceTimeoutRef # null /\ Len(attempts) < MaxCalls
       \/ Live # {}

\* C33: every attempt that is not superseded terminates: while a non-empty
\* input without markup stays unchanged, the overlay, with its debounce
\* timer and the ceiling of the normalizer call fair, eventually reaches
\* Resolved or Unresolved with the loading indicator off.
C33_AttemptTerminates ==
    \A text \in HeldTexts :
        Awaited(text) ~>
            \/ inputText # text
            \/ /\ Resolved \/ Unresolved
               /\ ~loading
               /\ debounceTimeoutRef = null
               /\ Live = {}

\* "5pm" was resolved from the raw text after a normalizer call that gave
\* no result
C33_Witness ==
    /\ inputText = TextFivePm
    /\ apiKey
    /\ Resolved
    /\ method = "deterministic-fallback"
    /\ ~loading
    /\ \E a \in Ids : ~InFlight(a) /\ ~attempts[a].aborted

\* C34: the copy action never emits a stale result: while a newer non-empty
\* input waits in the debounce timer or its attempt is in flight, the epoch
\* on display was resolved from a text that has been superseded, and
\* confirming with Enter or a click on a row writes no markup.
C34_NoStaleCopy ==
    [][(probe'.op = "copy" /\ clipboard' # clipboard) =>
           /\ debounceTimeoutRef = null
           /\ Live = {}
      ]_vars

\* C35: the loading indicator is on exactly when a debounce timer is pending
\* or an attempt that has not been aborted is in flight; so it is off in
\* Idle, Resolved and Unresolved, where neither is the case.
C35_LoadingMeansPending ==
    loading <=> (debounceTimeoutRef # null \/ Live # {})

\* the indicator went off with the result of the second attempt, after the
\* first one had been aborted while the indicator stayed on
C35_Witness ==
    /\ ~loading
    /\ epoch # null
    /\ debounceTimeoutRef = null
    /\ \E a \in Ids : attempts[a].aborted /\ ~InFlight(a)
    /\ \E b \in Ids : ~attempts[b].aborted /\ ~InFlight(b)

\* C36: the low-confidence warning is shown only while a resolved result
\* whose confidence is below 0.5 is displayed; it is never shown in Idle or
\* Unresolved, where no epoch is displayed.
C36_WarningOnlyWithResult ==
    showsWarning => Resolved

C38_TypingReplacesClipboard ==
    [][LET p == probe' IN
       (/\ p.op = "type"
        /\ p.from = p.to
        /\ isClipboardText
        /\ inputText # <<>>) =>
           /\ inputText' = <<p.char>>
           /\ ~isClipboardText'
      ]_vars

\* the last step ended an attempt that had not been aborted
AttemptEnded ==
    \/ probe.op = "statsReturn" /\ ~probe.aborted /\ probe.reply.kind = "not_configured"
    \/ Answered

\* the normalizer result the attempt of the last step went on with
ResultOfStep ==
    IF probe.op = "llmReturn" THEN parseWithLLM(probe.reply) ELSE null

\* C40: a deterministic parse that succeeds is recognised as success for
\* every epoch it returns, 0 included: when the normalized text parses, its
\* epoch is displayed and the raw text is not tried; when the raw text is
\* parsed and parses, its epoch is displayed; neither case ends Unresolved.
C40_EveryEpochIsSuccess ==
    AttemptEnded =>
        LET normalizedEpoch == IF ResultOfStep # null
                               THEN parseFallback(Val(ResultOfStep).normalizedText)
                               ELSE null
            fallbackEpoch == parseFallback(probe.text)
        IN  IF normalizedEpoch # null
            THEN epoch = normalizedEpoch /\ method = "llm-normalized"
            ELSE fallbackEpoch # null =>
                    /\ epoch = fallbackEpoch
                    /\ method \in {"llm-fallback-raw", "deterministic-fallback"}

====
